---- MODULE Spec2Model ----
(***************************************************************************)
(* Server-side orchestration layer of image-optimize (backend server, the  *)
(* second half of src/unnamed/part_000): the result cache, the dedup       *)
(* index, the progress jobs, the per-request limiter of /api/compress and  *)
(* the chunked upload sessions.                                            *)
(*                                                                         *)
(* One action is one turn of the Node.js event loop: a request handler or  *)
(* a continuation after an await, together with the microtasks it causes.  *)
(* The codec (sharp) is an external collaborator: each of its calls        *)
(* returns one of the outcomes drawn with \E.                              *)
(*                                                                         *)
(* Byte counts and times are scaled: a buffer is a short sequence of       *)
(* bytes, a tick of the clock is the unit of every TTL.  The program reads *)
(* a timestamp only in Date.now() - stamp > TTL, so each stamp is kept as  *)
(* its age Date.now() - stamp, which stops growing one tick past its TTL.  *)
(***************************************************************************)
EXTENDS Integers, Sequences, FiniteSets, TLC

VARIABLES
    uuids,                  \* number of crypto.randomUUID() values issued
    RESULT_CACHE,           \* Map in insertion order: sequence of entries
    COMPRESSED_HASH_INDEX,  \* Map "hash:quality" -> cache id
    JOBS,                   \* Map jobId -> ProgressJob (with its processJob frame)
    CALLS,                  \* compressBuffer invocations in flight, <<request, index>> -> frame
    LIMITERS,               \* pending /api/compress request -> its limiter
    UPLOAD_SESSIONS,        \* Map uploadId -> UploadSession
    resp,                   \* the response of the last request handled
    items                   \* the client's upload queue: item id -> QueueItem

vars == <<uuids, RESULT_CACHE, COMPRESSED_HASH_INDEX, JOBS, CALLS,
          LIMITERS, UPLOAD_SESSIONS, resp, items>>

----------------------------------------------------------------------------
(* Bounds of the model *)

MaxUuids == 3              \* crypto.randomUUID() values issued
MaxJobs == 2               \* progress jobs created by /api/compress
MaxTasks == 4              \* tasks handed to one limiter
MaxUploads == 2            \* uploads begun in the upload protocol
MaxRequests == 1           \* synchronous /api/compress requests pending at once

(* Program constants, scaled *)

MAX_CACHE_BYTES == 4
MAX_CACHE_ITEMS == 3
CACHE_TTL_MS == 1
MAX_PIXELS == 1
HARD_PIXELS == 2
CHUNK_MAX_FILE == 3
CHUNK_MAX_SESSION_MEMORY == 3
CHUNK_SESSION_TTL == 1
LIMIT == 2
JOB_GRACE == 1

(* Input domains *)

ClientIds == {101, 102, 103, 104}
Qualities == {70, 80}
PixelCounts == {1, 2, 3}      \* probed width * height
OutSizes == {1, 3, 5}         \* byte length of a codec output
ALLOWED_MIME == {"image/jpeg", "image/png", "image/webp"}
NoHash == <<>>
NoClient == 0                 \* undefined client id
NoResp == [op |-> "none"]

----------------------------------------------------------------------------
(* Buffers *)

\* The bytes a cache entry holds: the input itself, or the codec's output
\* for (src, q), n bytes long.
Raw(b) == [kind |-> "raw", src |-> b, q |-> 0, n |-> Len(b)]
Encoded(b, q, n) == [kind |-> "enc", src |-> b, q |-> q, n |-> n]

\* hashFileSHA256: the digest of the file's bytes (injective on the files
\* of the model).
hashFileSHA256(b) == <<"sha256">> \o b

----------------------------------------------------------------------------
(* Result cache *)

RECURSIVE currentCacheBytesOf(_)
currentCacheBytesOf(cache) ==
    IF cache = <<>> THEN 0 ELSE Head(cache).size + currentCacheBytesOf(Tail(cache))

currentCacheBytes == currentCacheBytesOf(RESULT_CACHE)

CacheHas(cache, k) == \E i \in DOMAIN cache : cache[i].key = k
CacheGet(cache, k) == cache[CHOOSE i \in DOMAIN cache : cache[i].key = k]

\* now - v.created > CACHE_TTL_MS
Expired(e) == e.age > CACHE_TTL_MS

PurgeExpired(cache) == SelectSeq(cache, LAMBDA e : ~Expired(e))

RECURSIVE EvictOldest(_, _, _)

\* Mutant of EvictOldest: the item budget tested with > instead of >=.
EvictOldestOffByOne(cache, bytes, extraBytes) ==
    IF (bytes + extraBytes > MAX_CACHE_BYTES \/ Len(cache) > MAX_CACHE_ITEMS) /\ Len(cache) > 0
    THEN EvictOldest(Tail(cache), bytes - Head(cache).size, extraBytes)
    ELSE [cache |-> cache, bytes |-> bytes]

\* The second pass of evictIfNeeded: "Map 迭代顺序即插入顺序 -> 移除最旧".
EvictOldest(cache, bytes, extraBytes) ==
    IF (bytes + extraBytes > MAX_CACHE_BYTES \/ Len(cache) >= MAX_CACHE_ITEMS) /\ Len(cache) > 0
    THEN EvictOldest(Tail(cache), bytes - Head(cache).size, extraBytes)
    ELSE [cache |-> cache, bytes |-> bytes]

\* Mutant of evictIfNeeded: the size of the result is tested after the
\* eviction instead of before it.
evictIfNeededEvictsFirst(cache, extraBytes) ==
    IF currentCacheBytesOf(cache) + extraBytes <= MAX_CACHE_BYTES
       /\ Len(cache) < MAX_CACHE_ITEMS
    THEN [ok |-> TRUE, cache |-> cache]
    ELSE LET purged == PurgeExpired(cache)
             r == EvictOldest(purged, currentCacheBytesOf(purged), extraBytes)
         IN  [ok |-> r.bytes + extraBytes <= MAX_CACHE_BYTES, cache |-> r.cache]

\* Mutant of evictIfNeeded: a cache without room refuses instead of evicting.
evictIfNeededNoEviction(cache, extraBytes) ==
    IF currentCacheBytesOf(cache) + extraBytes <= MAX_CACHE_BYTES
       /\ Len(cache) < MAX_CACHE_ITEMS
    THEN [ok |-> TRUE, cache |-> cache]
    ELSE [ok |-> FALSE, cache |-> cache]

evictIfNeeded(cache, extraBytes) ==
    IF extraBytes > MAX_CACHE_BYTES THEN [ok |-> FALSE, cache |-> cache]
    ELSE IF currentCacheBytesOf(cache) + extraBytes <= MAX_CACHE_BYTES
            /\ Len(cache) < MAX_CACHE_ITEMS
         THEN [ok |-> TRUE, cache |-> cache]
    ELSE LET purged == PurgeExpired(cache)
             r == EvictOldest(purged, currentCacheBytesOf(purged), extraBytes)
         IN  [ok |-> r.bytes + extraBytes <= MAX_CACHE_BYTES, cache |-> r.cache]

\* Mutant of CacheSet: every insertion makes a new entry.
CacheSetAppend(cache, k, buf) ==
    Append(cache, [key |-> k, buffer |-> buf, size |-> buf.n, age |-> 0])

\* Map.set: an existing key keeps its place in the iteration order.
CacheSet(cache, k, buf) ==
    LET e == [key |-> k, buffer |-> buf, size |-> buf.n, age |-> 0]
    IN  IF CacheHas(cache, k)
        THEN [i \in DOMAIN cache |-> IF cache[i].key = k THEN e ELSE cache[i]]
        ELSE Append(cache, e)

----------------------------------------------------------------------------
(* Maps *)

MapPut(m, k, v) == [x \in DOMAIN m \cup {k} |-> IF x = k THEN v ELSE m[x]]
MapDelNothing(m, k) == m

MapDel(m, k) == [x \in DOMAIN m \ {k} |-> m[x]]

----------------------------------------------------------------------------
Init ==
    /\ uuids = 0
    /\ RESULT_CACHE = <<>>
    /\ COMPRESSED_HASH_INDEX = <<>>
    /\ JOBS = <<>>
    /\ CALLS = <<>>
    /\ LIMITERS = <<>>
    /\ UPLOAD_SESSIONS = <<>>
    /\ resp = NoResp
    /\ items = <<>>

Older(age, ttl) == IF age > ttl THEN age ELSE age + 1

\* Time passes between two turns of the event loop: every stamp ages.
Tick ==
    /\ RESULT_CACHE' = [i \in DOMAIN RESULT_CACHE |->
            [RESULT_CACHE[i] EXCEPT !.age = Older(@, CACHE_TTL_MS)]]
    /\ JOBS' = [j \in DOMAIN JOBS |->
            [JOBS[j] EXCEPT !.age = Older(@, JOB_GRACE),
                            !.rest = IF JOBS[j].phase \in {"done", "error"}
                                     THEN Older(@, JOB_GRACE) ELSE @]]
    /\ UPLOAD_SESSIONS' = [u \in DOMAIN UPLOAD_SESSIONS |->
            [UPLOAD_SESSIONS[u] EXCEPT !.idle = Older(@, CHUNK_SESSION_TTL)]]
    /\ resp' = NoResp
    /\ UNCHANGED <<uuids, COMPRESSED_HASH_INDEX, CALLS, LIMITERS>>
    /\ UNCHANGED items

\* setInterval(..., 60 * 1000): the cache TTL sweep.
CacheSweep ==
    /\ RESULT_CACHE' = PurgeExpired(RESULT_CACHE)
    /\ resp' = NoResp
    /\ UNCHANGED <<uuids, COMPRESSED_HASH_INDEX, JOBS, CALLS, LIMITERS,
                   UPLOAD_SESSIONS>>
    /\ UNCHANGED items

\* GET /api/download/:id
Download(id) ==
    /\ resp' = IF ~CacheHas(RESULT_CACHE, id)
               THEN [op |-> "download", id |-> id, status |-> 404]
               ELSE [op |-> "download", id |-> id, status |-> 200,
                     buffer |-> CacheGet(RESULT_CACHE, id).buffer,
                     size |-> CacheGet(RESULT_CACHE, id).size]
    /\ UNCHANGED <<uuids, RESULT_CACHE, COMPRESSED_HASH_INDEX, JOBS, CALLS, LIMITERS,
                   UPLOAD_SESSIONS>>
    /\ UNCHANGED items

----------------------------------------------------------------------------
(* Progress jobs *)

Min(a, b) == IF a < b THEN a ELSE b
Max(a, b) == IF a > b THEN a ELSE b

\* log: every (phase, progress) the job has been assigned, in order; the
\* assignments between two awaits happen in one turn, and log keeps them.
\* late: encoder.toBuffer() lost the race against the timer and is still
\* pending.  age: the time since job.created.  rest: the time since the job
\* entered done or error (the job has no such field).
NewJob(clientId, buffer, quality) ==
    [clientId |-> clientId, buffer |-> buffer, quality |-> quality,
     age |-> 0, rest |-> 0, phase |-> "queued", progress |-> 0,
     resultId |-> NoClient, compressedSize |-> 0, error |-> "",
     pc |-> "scheduled", scaled |-> FALSE, late |-> FALSE,
     log |-> << <<"queued", 0>> >>]

EnterPastEncoding(job, phase, progress) ==
    LET p == IF phase = "encoding" THEN "finalizing" ELSE phase
    IN  [job EXCEPT !.phase = p, !.progress = progress,
                    !.log = Append(@, <<p, progress>>)]

\* job.phase = phase; job.progress = progress (progress in percent)
Enter(job, phase, progress) ==
    [job EXCEPT !.phase = phase, !.progress = progress,
                !.log = Append(@, <<phase, progress>>)]

JobErrorProgressLost(job, msg) ==
    [Enter(job, "error", 0) EXCEPT !.error = msg, !.pc = "returned", !.scaled = FALSE]

\* catch (e) of processJob
JobError(job, msg) ==
    [Enter(job, "error", 100) EXCEPT !.error = msg, !.pc = "returned", !.scaled = FALSE]

NeverTooLarge(totalPixels) == FALSE

\* totalPixels > 80_000_000
TooLarge(totalPixels) == totalPixels > HARD_PIXELS

AlwaysEncoded(buffer, quality, scaled, n) == Encoded(buffer, quality, n)

\* "不放大": the input is kept when the output is not smaller and the
\* image was not resized.
FinalBuffer(buffer, quality, scaled, n) ==
    IF ~scaled /\ n >= Len(buffer) THEN Raw(buffer)
    ELSE Encoded(buffer, quality, n)

\* POST /api/compress?progress=1 with one file per entry of files; a file
\* without an embedded or mapped id gets a random one.
RECURSIVE CreateJobs(_, _, _, _)
CreateJobs(jobs, n, files, quality) ==
    IF files = <<>> THEN [jobs |-> jobs, uuids |-> n, items |-> <<>>]
    ELSE LET f == Head(files)
             withId == f.clientId # NoClient
             clientId == IF withId THEN f.clientId ELSE n + 1
             jobId == IF withId THEN n + 1 ELSE n + 2
             rest == CreateJobs(MapPut(jobs, jobId, NewJob(clientId, f.buffer, quality)),
                                jobId, Tail(files), quality)
         IN  [rest EXCEPT !.items = <<[id |-> clientId, jobId |-> jobId]>> \o @]

CompressAsync(files, quality) ==
    /\ LET r == CreateJobs(JOBS, uuids, files, quality)
       IN  /\ JOBS' = r.jobs
           /\ uuids' = r.uuids
           /\ resp' = [op |-> "compress", async |-> TRUE, count |-> Len(files),
                       items |-> r.items]
    /\ UNCHANGED <<RESULT_CACHE, COMPRESSED_HASH_INDEX, CALLS, LIMITERS,
                   UPLOAD_SESSIONS>>
    /\ UNCHANGED items

\* setImmediate(() => processJob(job)): up to the first await.
JobStart(j) ==
    /\ j \in DOMAIN JOBS
    /\ JOBS[j].pc = "scheduled"
    /\ JOBS' = [JOBS EXCEPT ![j] = [Enter(@, "decoding", 5) EXCEPT !.pc = "metadata"]]
    /\ resp' = NoResp
    /\ UNCHANGED <<uuids, RESULT_CACHE, COMPRESSED_HASH_INDEX, CALLS,
                   LIMITERS, UPLOAD_SESSIONS>>
    /\ UNCHANGED items

\* sharp(job.buffer).metadata() settles: threw, or probed pixels.
JobMetadata(j, threw, totalPixels) ==
    /\ j \in DOMAIN JOBS
    /\ JOBS[j].pc = "metadata"
    /\ JOBS' = [JOBS EXCEPT ![j] =
          IF threw THEN JobError(@, "compress_failed")
          ELSE IF TooLarge(totalPixels) THEN JobError(@, "dimensions_too_large")
          ELSE IF totalPixels > MAX_PIXELS
               THEN [Enter(@, "resizing", 15) EXCEPT !.pc = "resize"]
          ELSE [Enter(@, "encoding", Max(@.progress, 45)) EXCEPT !.pc = "encode"]]
    /\ resp' = NoResp
    /\ UNCHANGED <<uuids, RESULT_CACHE, COMPRESSED_HASH_INDEX, CALLS,
                   LIMITERS, UPLOAD_SESSIONS>>
    /\ UNCHANGED items

\* The resize's toBuffer() settles.
JobResized(j, threw) ==
    /\ j \in DOMAIN JOBS
    /\ JOBS[j].pc = "resize"
    /\ JOBS' = [JOBS EXCEPT ![j] =
          IF threw THEN JobError(@, "compress_failed")
          ELSE [Enter(Enter(@, "resizing", 40), "encoding", Max(40, 45))
                   EXCEPT !.scaled = TRUE, !.pc = "encode"]]
    /\ resp' = NoResp
    /\ UNCHANGED <<uuids, RESULT_CACHE, COMPRESSED_HASH_INDEX, CALLS,
                   LIMITERS, UPLOAD_SESSIONS>>
    /\ UNCHANGED items

\* Promise.race([encoder.toBuffer(), timeout]) settles: "throw", "timeout"
\* (the empty buffer), or an output of n bytes; then the finalizing step.
JobEncoded(j, outcome, n) ==
    /\ j \in DOMAIN JOBS
    /\ JOBS[j].pc = "encode"
    /\ LET job == JOBS[j]
           final == FinalBuffer(job.buffer, job.quality, job.scaled, n)
           ev == evictIfNeeded(RESULT_CACHE, final.n)
       IN  IF outcome = "throw"
           THEN /\ JOBS' = [JOBS EXCEPT ![j] = JobError(@, "compress_failed")]
                /\ UNCHANGED RESULT_CACHE
           ELSE IF outcome = "timeout"
           THEN /\ JOBS' = [JOBS EXCEPT ![j] =
                       [JobError(@, "timeout") EXCEPT !.late = TRUE]]
                /\ UNCHANGED RESULT_CACHE
           ELSE IF ~ev.ok
           THEN /\ JOBS' = [JOBS EXCEPT ![j] =
                       JobError(Enter(@, "finalizing", 95), "cache_overflow")]
                /\ RESULT_CACHE' = ev.cache
           ELSE /\ RESULT_CACHE' = CacheSet(ev.cache, job.clientId, final)
                /\ JOBS' = [JOBS EXCEPT ![j] =
                       [Enter(Enter(@, "finalizing", 95), "done", 100)
                           EXCEPT !.resultId = job.clientId,
                                 !.compressedSize = final.n, !.pc = "returned",
                                 !.scaled = FALSE]]
    /\ resp' = NoResp
    /\ UNCHANGED <<uuids, COMPRESSED_HASH_INDEX, CALLS, LIMITERS,
                   UPLOAD_SESSIONS>>
    /\ UNCHANGED items

LateSettleResumes(job) ==
    [Enter(job, "done", 100) EXCEPT !.late = FALSE, !.resultId = job.clientId]

\* Promise.race has settled with the timer's value: the reactions it put
\* on encoder.toBuffer() find the race decided and do nothing.
LateSettle(job) == [job EXCEPT !.late = FALSE]

\* encoder.toBuffer() of job j settles after its timeout.
JobLateSettle(j) ==
    /\ j \in DOMAIN JOBS
    /\ JOBS[j].late
    /\ JOBS' = [JOBS EXCEPT ![j] = LateSettle(@)]
    /\ resp' = NoResp
    /\ UNCHANGED <<uuids, RESULT_CACHE, COMPRESSED_HASH_INDEX, CALLS,
                   LIMITERS, UPLOAD_SESSIONS>>
    /\ UNCHANGED items

\* The sharp call that job j awaits never settles.  metadata() and the
\* resize's toBuffer() are awaited on their own, so processJob is never
\* resumed; the encoder is raced against the timer, which is the outcome
\* "timeout" of JobEncoded.
JobHang(j) ==
    /\ j \in DOMAIN JOBS
    /\ JOBS[j].pc \in {"metadata", "resize"}
    /\ JOBS' = [JOBS EXCEPT ![j].pc = "hung"]
    /\ resp' = NoResp
    /\ UNCHANGED <<uuids, RESULT_CACHE, COMPRESSED_HASH_INDEX, CALLS,
                   LIMITERS, UPLOAD_SESSIONS>>
    /\ UNCHANGED items

\* The next turn of job j's processJob.
JobTurn(j, throws, pixels, outcomes, sizes) ==
    \/ JobStart(j)
    \/ \E threw \in throws, px \in pixels : JobMetadata(j, threw, px)
    \/ \E threw \in throws : JobResized(j, threw)
    \/ \E outcome \in outcomes, n \in sizes : JobEncoded(j, outcome, n)

JobStep(throws, pixels, outcomes, sizes) ==
    \E j \in DOMAIN JOBS : JobTurn(j, throws, pixels, outcomes, sizes)

\* The record both polling endpoints build for a job in the store (it has
\* no missing property; missing is FALSE here).
JobView(jobId) ==
    [jobId |-> jobId, missing |-> FALSE, id |-> JOBS[jobId].clientId,
     phase |-> JOBS[jobId].phase, progress |-> JOBS[jobId].progress,
     error |-> JOBS[jobId].error, compressedSize |-> JOBS[jobId].compressedSize]

\* GET /api/job/:jobId
PollJob(jobId) ==
    /\ IF jobId \notin DOMAIN JOBS
       THEN /\ resp' = [op |-> "job", status |-> 404]
            /\ UNCHANGED JOBS
       ELSE /\ resp' = [op |-> "job", status |-> 200, item |-> JobView(jobId)]
            /\ JOBS' = IF /\ JOBS[jobId].phase \in {"done", "error"}
                          /\ JOBS[jobId].age > JOB_GRACE
                       THEN MapDel(JOBS, jobId)
                       ELSE JOBS
    /\ UNCHANGED <<uuids, RESULT_CACHE, COMPRESSED_HASH_INDEX, CALLS, LIMITERS,
                   UPLOAD_SESSIONS>>
    /\ UNCHANGED items

\* GET /api/jobs?ids=...: one record per id, in the order given.
PollJobs(ids) ==
    /\ resp' = [op |-> "jobs", ids |-> ids,
                items |-> [i \in DOMAIN ids |->
                             IF ids[i] \notin DOMAIN JOBS
                             THEN [jobId |-> ids[i], missing |-> TRUE]
                             ELSE JobView(ids[i])]]
    /\ UNCHANGED <<uuids, RESULT_CACHE, COMPRESSED_HASH_INDEX, JOBS, CALLS, LIMITERS,
                   UPLOAD_SESSIONS>>
    /\ UNCHANGED items

----------------------------------------------------------------------------
(* compressBuffer and the limiter of a synchronous /api/compress *)

\* A compressBuffer frame.  req = 0: called by /api/upload/complete.
NewCall(id, buffer, mime, quality, hash) ==
    [id |-> id, buffer |-> buffer, mime |-> mime, quality |-> quality,
     hash |-> hash, pc |-> "queued", scaled |-> FALSE,
     error |-> "", compressedSize |-> 0]

CallReturn(call, err, size) ==
    [call EXCEPT !.pc = "returned", !.scaled = FALSE, !.error = err,
                 !.compressedSize = size]

\* compressBuffer up to its first await.
CallBegin(call) ==
    IF call.mime \notin ALLOWED_MIME THEN CallReturn(call, "unsupported_type", 0)
    ELSE [call EXCEPT !.pc = "metadata"]

\* next() of createLimiter, repeated as the microtasks of tasks that return
\* at once release their slot: queued tasks start in FIFO order while
\* fewer than max are running.
RECURSIVE Admit(_, _, _)
Admit(r, lim, calls) ==
    IF lim.active >= LIMIT \/ lim.queue = <<>> THEN [lim |-> lim, calls |-> calls]
    ELSE LET i == Head(lim.queue)
             begun == CallBegin(calls[<<r, i>>])
             running == begun.pc # "returned"
         IN  Admit(r,
                   [lim EXCEPT !.queue = Tail(@),
                               !.active = IF running THEN @ + 1 ELSE @],
                   [calls EXCEPT ![<<r, i>>] = begun])

CallsOf(calls, r) == {k \in DOMAIN calls : k[1] = r}

\* settled.filter((i) => !("error" in i)).length
Succeeded(calls, r) == Cardinality({k \in CallsOf(calls, r) : calls[k].error = ""})

\* After a frame of request r has changed: .finally releases the slot and
\* admits the next task; once every task has settled, Promise.all resolves
\* and the response is sent.
Settle(r, lims, calls, released) ==
    IF r = 0
    THEN LET k == CHOOSE k \in CallsOf(calls, 0) : calls[k].pc = "returned"
         IN  IF \E k2 \in CallsOf(calls, 0) : calls[k2].pc = "returned"
             THEN [lims |-> lims,
                   calls |-> [x \in DOMAIN calls \ {k} |-> calls[x]],
                   resp |-> [op |-> "complete", async |-> FALSE, id |-> calls[k].id,
                             error |-> calls[k].error,
                             compressedSize |-> calls[k].compressedSize]]
             ELSE [lims |-> lims, calls |-> calls, resp |-> NoResp]
    ELSE LET lim1 == IF released THEN [lims[r] EXCEPT !.active = @ - 1] ELSE lims[r]
             a == Admit(r, lim1, calls)
             done == \A k \in CallsOf(a.calls, r) : a.calls[k].pc = "returned"
             count == Cardinality(CallsOf(a.calls, r))
         IN  IF done
             THEN [lims |-> MapDel(lims, r),
                   calls |-> [x \in DOMAIN calls \ CallsOf(calls, r) |-> a.calls[x]],
                   resp |-> [op |-> "compress", async |-> FALSE, count |-> count,
                             success |-> Succeeded(a.calls, r),
                             failed |-> count - Succeeded(a.calls, r)]]
             ELSE [lims |-> MapPut(lims, r, a.lim), calls |-> a.calls, resp |-> NoResp]

\* POST /api/compress without progress=1: const limit = createLimiter(4),
\* then limit(task) for each file in turn.
CompressSync(files, quality) ==
    /\ \E r \in 1..MaxRequests :
        /\ r \notin DOMAIN LIMITERS
        /\ \A r2 \in 1..(r - 1) : r2 \in DOMAIN LIMITERS
        /\ LET calls0 == [k \in DOMAIN CALLS \cup {<<r, i>> : i \in DOMAIN files} |->
                            IF k \in DOMAIN CALLS THEN CALLS[k]
                            ELSE NewCall(files[k[2]].clientId, files[k[2]].buffer,
                                         files[k[2]].mime, quality, NoHash)]
               lims0 == MapPut(LIMITERS, r,
                               [active |-> 0, queue |-> [i \in DOMAIN files |-> i]])
               s == Settle(r, lims0, calls0, FALSE)
           IN  /\ CALLS' = s.calls
               /\ LIMITERS' = s.lims
               /\ resp' = s.resp
    /\ UNCHANGED <<uuids, RESULT_CACHE, COMPRESSED_HASH_INDEX, JOBS, UPLOAD_SESSIONS>>
    /\ UNCHANGED items

\* await sharp(buffer).metadata() settles in a compressBuffer frame.
CallMetadata(k, threw, totalPixels) ==
    /\ k \in DOMAIN CALLS
    /\ CALLS[k].pc = "metadata"
    /\ LET call == IF threw THEN CallReturn(CALLS[k], "compress_failed", 0)
                   ELSE IF TooLarge(totalPixels)
                        THEN CallReturn(CALLS[k], "dimensions_too_large", 0)
                   ELSE [CALLS[k] EXCEPT !.pc = "encode",
                                         !.scaled = totalPixels > MAX_PIXELS]
           s == Settle(k[1], LIMITERS, [CALLS EXCEPT ![k] = call], call.pc = "returned")
       IN  /\ CALLS' = s.calls
           /\ LIMITERS' = s.lims
           /\ resp' = s.resp
    /\ UNCHANGED <<uuids, RESULT_CACHE, COMPRESSED_HASH_INDEX, JOBS, UPLOAD_SESSIONS>>
    /\ UNCHANGED items

IndexKey(hash, quality) == <<hash, quality>>

\* Promise.race([pipeline.toBuffer(), timeout]) settles in a compressBuffer
\* frame; the rest of compressBuffer follows in the same turn.
CallEncoded(k, outcome, n) ==
    /\ k \in DOMAIN CALLS
    /\ CALLS[k].pc = "encode"
    /\ LET c == CALLS[k]
           final == FinalBuffer(c.buffer, c.quality, c.scaled, n)
           ev == evictIfNeeded(RESULT_CACHE, final.n)
           stored == outcome = "ok" /\ ev.ok
           call == IF outcome = "throw" THEN CallReturn(c, "compress_failed", 0)
                   ELSE IF outcome = "timeout" THEN CallReturn(c, "timeout", 0)
                   ELSE IF ~ev.ok THEN CallReturn(c, "cache_overflow", 0)
                   ELSE CallReturn(c, "", final.n)
           s == Settle(k[1], LIMITERS, [CALLS EXCEPT ![k] = call], TRUE)
       IN  /\ RESULT_CACHE' = IF stored THEN CacheSet(ev.cache, c.id, final)
                              ELSE IF outcome = "ok" THEN ev.cache
                              ELSE RESULT_CACHE
           /\ COMPRESSED_HASH_INDEX' =
                 IF stored /\ c.hash # NoHash
                 THEN MapPut(COMPRESSED_HASH_INDEX, IndexKey(c.hash, c.quality), c.id)
                 ELSE COMPRESSED_HASH_INDEX
           /\ CALLS' = s.calls
           /\ LIMITERS' = s.lims
           /\ resp' = s.resp
    /\ UNCHANGED <<uuids, JOBS, UPLOAD_SESSIONS>>
    /\ UNCHANGED items

CallStep(throws, pixels, outcomes, sizes) ==
    \E k \in DOMAIN CALLS :
        \/ \E threw \in throws, px \in pixels : CallMetadata(k, threw, px)
        \/ \E outcome \in outcomes, n \in sizes : CallEncoded(k, outcome, n)

----------------------------------------------------------------------------
(* createLimiter with tasks of any kind *)

\* A task handed to limit() of limiter r is the frame CALLS[<<r, i>>], i
\* counting the calls of limit(): pc is where its run() stands, outcome is
\* what the promise of task() settled with, promise is the promise that
\* limit() returned, and waited tells that run() was called by a finally.
Unsettled == [state |-> "pending", value |-> "none"]

NewTask == [pc |-> "queued", waited |-> FALSE, outcome |-> Unsettled, promise |-> Unsettled]

TasksOf(calls, r) == {k \in DOMAIN calls : k[1] = r}

\* const limit = createLimiter(max)
CreateLimiter(r) ==
    /\ r \notin DOMAIN LIMITERS
    /\ LIMITERS' = MapPut(LIMITERS, r, [active |-> 0, queue |-> <<>>])
    /\ resp' = NoResp
    /\ UNCHANGED <<uuids, RESULT_CACHE, COMPRESSED_HASH_INDEX, JOBS, CALLS,
                   UPLOAD_SESSIONS>>
    /\ UNCHANGED items

nextUnbounded(r, lim, calls) ==
    IF lim.queue = <<>> THEN [lim |-> lim, calls |-> calls]
    ELSE LET i == Head(lim.queue)
         IN  [lim |-> [lim EXCEPT !.queue = Tail(@), !.active = @ + 1],
              calls |-> [calls EXCEPT ![<<r, i>>].pc = "running"]]


\* Mutant of next: one slot is always kept free.
nextKeepsSpare(r, lim, calls) ==
    IF lim.active >= LIMIT - 1 \/ lim.queue = <<>> THEN [lim |-> lim, calls |-> calls]
    ELSE LET i == Head(lim.queue)
         IN  [lim |-> [lim EXCEPT !.queue = Tail(@), !.active = @ + 1],
              calls |-> [calls EXCEPT ![<<r, i>>].pc = "running"]]

nextNewestFirst(r, lim, calls) ==
    IF lim.active >= LIMIT \/ lim.queue = <<>> THEN [lim |-> lim, calls |-> calls]
    ELSE LET i == lim.queue[Len(lim.queue)]
         IN  [lim |-> [lim EXCEPT !.queue = SubSeq(@, 1, Len(@) - 1), !.active = @ + 1],
              calls |-> [calls EXCEPT ![<<r, i>>].pc = "running"]]

\* next(): if (active >= max) return; fn = queue.shift(); active++; fn()
next(r, lim, calls) ==
    IF lim.active >= LIMIT \/ lim.queue = <<>> THEN [lim |-> lim, calls |-> calls]
    ELSE LET i == Head(lim.queue)
         IN  [lim |-> [lim EXCEPT !.queue = Tail(@), !.active = @ + 1],
              calls |-> [calls EXCEPT ![<<r, i>>].pc = "running"]]

\* limit(task): queue.push(run); next()
Limit(r) ==
    /\ r \in DOMAIN LIMITERS
    /\ LET i == Cardinality(TasksOf(CALLS, r)) + 1
           a == next(r, [LIMITERS[r] EXCEPT !.queue = Append(@, i)],
                     MapPut(CALLS, <<r, i>>, NewTask))
       IN  /\ LIMITERS' = [LIMITERS EXCEPT ![r] = a.lim]
           /\ CALLS' = a.calls
    /\ resp' = NoResp
    /\ UNCHANGED <<uuids, RESULT_CACHE, COMPRESSED_HASH_INDEX, JOBS, UPLOAD_SESSIONS>>
    /\ UNCHANGED items

PassOnAsFulfilled(outcome) == [state |-> "fulfilled", value |-> outcome.value]

\* .then((v) => resolve(v)).catch(reject)
PassOn(outcome) ==
    IF outcome.state = "fulfilled" THEN [state |-> "fulfilled", value |-> outcome.value]
    ELSE [state |-> "rejected", value |-> outcome.value]

NotReleased(lim) == lim

\* active--
Released(lim) == [lim EXCEPT !.active = @ - 1]

\* The promise of a running task() settles with outcome: the then/catch
\* callbacks settle the promise of limit(), the finally callback releases
\* the slot and calls next().
TaskSettles(k, outcome) ==
    /\ k \in DOMAIN CALLS
    /\ CALLS[k].pc = "running"
    /\ LET r == k[1]
           settled == [CALLS EXCEPT ![k].pc = "settled", ![k].outcome = outcome,
                                    ![k].promise = PassOn(outcome)]
           a == next(r, Released(LIMITERS[r]), settled)
       IN  /\ LIMITERS' = [LIMITERS EXCEPT ![r] = a.lim]
           /\ CALLS' = [x \in DOMAIN CALLS |->
                           IF CALLS[x].pc = "queued" /\ a.calls[x].pc = "running"
                           THEN [a.calls[x] EXCEPT !.waited = TRUE]
                           ELSE a.calls[x]]
    /\ resp' = NoResp
    /\ UNCHANGED <<uuids, RESULT_CACHE, COMPRESSED_HASH_INDEX, JOBS, UPLOAD_SESSIONS>>
    /\ UNCHANGED items

----------------------------------------------------------------------------
(* Chunked upload sessions *)

\* Buffer.concat(ordered)
RECURSIVE Concat(_)
Concat(parts) == IF parts = <<>> THEN <<>> ELSE Head(parts) \o Concat(Tail(parts))

\* Math.min(100, Math.max(1, Number(quality) || fallback || 70)); 0 stands
\* for a quality that was not given.
ClampQuality(quality, fallback) ==
    Min(100, Max(1, IF quality # 0 THEN quality ELSE IF fallback # 0 THEN fallback ELSE 70))

RECURSIVE SumBytes(_, _)
SumBytes(sessions, ids) ==
    IF ids = {} THEN 0
    ELSE LET u == CHOOSE u \in ids : TRUE
         IN  sessions[u].receivedBytes + SumBytes(sessions, ids \ {u})

currentUploadBytes == SumBytes(UPLOAD_SESSIONS, DOMAIN UPLOAD_SESSIONS)

\* The sessions init would resume, in the Map's insertion order.
ResumeMatches(filename, size, mime, hash) ==
    {u \in DOMAIN UPLOAD_SESSIONS :
        /\ UPLOAD_SESSIONS[u].hash = hash
        /\ UPLOAD_SESSIONS[u].filename = filename
        /\ UPLOAD_SESSIONS[u].totalSize = size
        /\ UPLOAD_SESSIONS[u].mime = mime}

Oldest(ids) == CHOOSE u \in ids : \A v \in ids : u <= v

\* canceled is not a field of the server's session: it is the canceled flag
\* of the client's queue item that uploads into the session.
\* POST /api/upload/init with a well-formed body.  The uploadId of an
\* instant answer names nothing and is not counted in uuids.
UploadInit(filename, size, mime, totalChunks, quality, hash, clientId) ==
    /\ UNCHANGED items
    /\ LET q == ClampQuality(quality, 0)
           key == IndexKey(hash, q)
           indexed == hash # NoHash /\ key \in DOMAIN COMPRESSED_HASH_INDEX
           cacheId == COMPRESSED_HASH_INDEX[key]
           hit == indexed /\ CacheHas(RESULT_CACHE, cacheId)
           index1 == IF indexed /\ ~hit THEN MapDel(COMPRESSED_HASH_INDEX, key)
                     ELSE COMPRESSED_HASH_INDEX
           matches == IF hash # NoHash THEN ResumeMatches(filename, size, mime, hash) ELSE {}
           id == uuids + 1
       IN
       IF mime \notin ALLOWED_MIME
       THEN /\ resp' = [op |-> "init", error |-> "unsupported_type"]
            /\ UNCHANGED <<uuids, RESULT_CACHE, COMPRESSED_HASH_INDEX, JOBS, CALLS,
                           LIMITERS, UPLOAD_SESSIONS>>
       ELSE IF size > CHUNK_MAX_FILE
       THEN /\ resp' = [op |-> "init", error |-> "file_too_large"]
            /\ UNCHANGED <<uuids, RESULT_CACHE, COMPRESSED_HASH_INDEX, JOBS, CALLS,
                           LIMITERS, UPLOAD_SESSIONS>>
       ELSE IF hit
       THEN /\ resp' = [op |-> "init", error |-> "", instant |-> TRUE, resume |-> FALSE,
                        hash |-> hash, quality |-> q, id |-> cacheId,
                        compressedSize |-> CacheGet(RESULT_CACHE, cacheId).size]
            /\ UNCHANGED <<uuids, RESULT_CACHE, COMPRESSED_HASH_INDEX, JOBS, CALLS,
                           LIMITERS, UPLOAD_SESSIONS>>
       ELSE IF matches # {}
       THEN /\ resp' = [op |-> "init", error |-> "", instant |-> FALSE, resume |-> TRUE,
                        hash |-> hash, quality |-> q, uploadId |-> Oldest(matches),
                        receivedBytes |-> UPLOAD_SESSIONS[Oldest(matches)].receivedBytes,
                        receivedIndices |-> UPLOAD_SESSIONS[Oldest(matches)].order]
            /\ COMPRESSED_HASH_INDEX' = index1
            /\ UNCHANGED <<uuids, RESULT_CACHE, JOBS, CALLS, LIMITERS, UPLOAD_SESSIONS>>
       ELSE IF currentUploadBytes + size > CHUNK_MAX_SESSION_MEMORY
       THEN /\ resp' = [op |-> "init", error |-> "server_busy"]
            /\ COMPRESSED_HASH_INDEX' = index1
            /\ UNCHANGED <<uuids, RESULT_CACHE, JOBS, CALLS, LIMITERS, UPLOAD_SESSIONS>>
       ELSE /\ uuids' = id
            /\ UPLOAD_SESSIONS' = MapPut(UPLOAD_SESSIONS, id,
                   [filename |-> filename, mime |-> mime, totalSize |-> size,
                    totalChunks |-> totalChunks, receivedBytes |-> 0, chunks |-> <<>>,
                    order |-> <<>>, idle |-> 0, quality |-> q, hash |-> hash, clientId |-> clientId,
                    canceled |-> FALSE])
            /\ resp' = [op |-> "init", error |-> "", instant |-> FALSE, resume |-> FALSE,
                        hash |-> hash, quality |-> q, uploadId |-> id,
                        receivedBytes |-> 0, receivedIndices |-> <<>>]
            /\ COMPRESSED_HASH_INDEX' = index1
            /\ UNCHANGED <<RESULT_CACHE, JOBS, CALLS, LIMITERS>>

\* cancelChunk of the client: the item is marked canceled and its
\* AbortController aborts the client's pending fetches; no request tells
\* the server.
CancelChunk(u) ==
    /\ u \in DOMAIN UPLOAD_SESSIONS
    /\ ~UPLOAD_SESSIONS[u].canceled
    /\ UPLOAD_SESSIONS' = [UPLOAD_SESSIONS EXCEPT ![u].canceled = TRUE]
    /\ resp' = NoResp
    /\ UNCHANGED <<uuids, RESULT_CACHE, COMPRESSED_HASH_INDEX, JOBS, CALLS, LIMITERS>>
    /\ UNCHANGED items

\* session.chunks.has(idx)
NeverReceived(session, idx) == FALSE

AlreadyReceived(session, idx) == idx \in DOMAIN session.chunks

\* POST /api/upload/chunk?uploadId=u&index=idx with the chunk's bytes (hasFile)
\* or without a file part.
PutChunk(u, idx, hasFile, data) ==
    /\ UNCHANGED <<uuids, RESULT_CACHE, COMPRESSED_HASH_INDEX, JOBS, CALLS, LIMITERS>>
    /\ IF u \notin DOMAIN UPLOAD_SESSIONS
       THEN /\ resp' = [op |-> "chunk", error |-> "upload_not_found"]
            /\ UNCHANGED UPLOAD_SESSIONS
       ELSE LET session == UPLOAD_SESSIONS[u]
                received == session.receivedBytes + Len(data)
                chunks == MapPut(session.chunks, idx, data)
            IN
            IF idx < 0 \/ idx >= session.totalChunks
            THEN /\ resp' = [op |-> "chunk", error |-> "bad_index"]
                 /\ UNCHANGED UPLOAD_SESSIONS
            ELSE IF AlreadyReceived(session, idx)
            THEN /\ resp' = [op |-> "chunk", error |-> "", uploadId |-> u, index |-> idx,
                             received |-> session.receivedBytes,
                             total |-> session.totalSize,
                             done |-> Cardinality(DOMAIN session.chunks) = session.totalChunks,
                             duplicate |-> TRUE]
                 /\ UNCHANGED UPLOAD_SESSIONS
            ELSE IF ~hasFile
            THEN /\ resp' = [op |-> "chunk", error |-> "no_chunk"]
                 /\ UNCHANGED UPLOAD_SESSIONS
            ELSE IF received > session.totalSize
            THEN /\ UPLOAD_SESSIONS' = MapDel(UPLOAD_SESSIONS, u)
                 /\ resp' = [op |-> "chunk", error |-> "upload_size_mismatch"]
            ELSE /\ UPLOAD_SESSIONS' = [UPLOAD_SESSIONS EXCEPT ![u] =
                        [@ EXCEPT !.chunks = chunks, !.order = Append(@, idx),
                                  !.receivedBytes = received, !.idle = 0]]
                 /\ resp' = [op |-> "chunk", error |-> "", uploadId |-> u, index |-> idx,
                             received |-> received, total |-> session.totalSize,
                             done |-> Cardinality(DOMAIN chunks) = session.totalChunks,
                             duplicate |-> FALSE]
    /\ UNCHANGED items


\* The characters of a query-string value are a sequence of one-character
\* strings.
Digit == [c \in {"0", "1", "2", "3", "4", "5", "6", "7", "8", "9"} |->
            CASE c = "0" -> 0 [] c = "1" -> 1 [] c = "2" -> 2 [] c = "3" -> 3
              [] c = "4" -> 4 [] c = "5" -> 5 [] c = "6" -> 6 [] c = "7" -> 7
              [] c = "8" -> 8 [] c = "9" -> 9]

IsDigits(str) == str # <<>> /\ \A i \in DOMAIN str : str[i] \in DOMAIN Digit

RECURSIVE DigitsValue(_)
DigitsValue(str) ==
    IF str = <<>> THEN 0
    ELSE 10 * DigitsValue(SubSeq(str, 1, Len(str) - 1)) + Digit[str[Len(str)]]

RECURSIVE Trim(_)
Trim(str) ==
    IF str = <<>> THEN str
    ELSE IF Head(str) = " " THEN Trim(Tail(str))
    ELSE IF str[Len(str)] = " " THEN Trim(SubSeq(str, 1, Len(str) - 1))
    ELSE str

NaN == [nan |-> TRUE, whole |-> 0, frac |-> FALSE]

\* Number(index) of a string made of digits, blanks, signs, points and
\* letters: white space is trimmed, the empty string is 0, a signed decimal
\* literal is its value (whole: the integer it is or is rounded to towards
\* zero; frac: it has a fractional part), anything else is NaN.
Number(str) ==
    LET t == Trim(str)
        signed == t # <<>> /\ Head(t) \in {"-", "+"}
        body == IF signed THEN Tail(t) ELSE t
        sign == IF signed /\ Head(t) = "-" THEN -1 ELSE 1
        points == {i \in DOMAIN body : body[i] = "."}
        p == CHOOSE i \in points : TRUE
        int == SubSeq(body, 1, p - 1)
        dec == SubSeq(body, p + 1, Len(body))
    IN  IF t = <<>> THEN [nan |-> FALSE, whole |-> 0, frac |-> FALSE]
        ELSE IF IsDigits(body)
        THEN [nan |-> FALSE, whole |-> sign * DigitsValue(body), frac |-> FALSE]
        ELSE IF /\ Cardinality(points) = 1
                /\ int = <<>> \/ IsDigits(int)
                /\ dec = <<>> \/ IsDigits(dec)
                /\ int # <<>> \/ dec # <<>>
        THEN [nan |-> FALSE, whole |-> sign * DigitsValue(int),
              frac |-> DigitsValue(dec) # 0]
        ELSE NaN

\* Number.isInteger(idx)
IsInteger(n) == ~n.nan /\ ~n.frac

\* POST /api/upload/chunk with the query string as the client sent it: its
\* parameters are read from req.query and the index is converted with
\* Number before PutChunk deals with the integer.
ChunkRequest(query, hasFile, data) ==
    /\ UNCHANGED items
    /\ IF "uploadId" \notin DOMAIN query \/ "index" \notin DOMAIN query
       THEN /\ resp' = [op |-> "chunk", error |-> "bad_request"]
            /\ UNCHANGED <<uuids, RESULT_CACHE, COMPRESSED_HASH_INDEX, JOBS, CALLS,
                           LIMITERS, UPLOAD_SESSIONS>>
       ELSE IF query.uploadId \in DOMAIN UPLOAD_SESSIONS /\ ~IsInteger(Number(query.index))
       THEN /\ resp' = [op |-> "chunk", error |-> "bad_index"]
            /\ UNCHANGED <<uuids, RESULT_CACHE, COMPRESSED_HASH_INDEX, JOBS, CALLS,
                           LIMITERS, UPLOAD_SESSIONS>>
       ELSE PutChunk(query.uploadId, Number(query.index).whole, hasFile, data)


\* The session after /api/upload/chunk has stored data as a chunk with a
\* new index: session.chunks.set(idx, file.buffer); session.receivedBytes
\* += file.size; session.updated = Date.now().
AfterChunk(session, idx, data) ==
    [session EXCEPT !.chunks = MapPut(session.chunks, idx, data),
                    !.order = Append(@, idx),
                    !.receivedBytes = @ + Len(data), !.idle = 0]

\* The chunk requests that change an open session and leave it open: a
\* valid index that was not received yet, with bytes that do not overflow
\* the declared size.  Every other request leaves the session as it is or
\* deletes it.
Accepted(session) ==
    {<<idx, n>> \in (0..(session.totalChunks - 1)) \X (0..CHUNK_MAX_FILE) :
        /\ ~AlreadyReceived(session, idx)
        /\ session.receivedBytes + n <= session.totalSize}

OrderedByArrival(session) ==
    [i \in 1..Len(session.order) |-> session.chunks[session.order[i]]]

\* for (let i = 0; i < session.totalChunks; i++) ordered.push(session.chunks.get(i))
Ordered(session) == [i \in 1..session.totalChunks |-> session.chunks[i - 1]]

AllChunksCounted(session) ==
    Cardinality(DOMAIN session.chunks) = session.totalChunks

\* session.chunks.size === session.totalChunks &&
\* session.receivedBytes === session.totalSize
SessionComplete(session) ==
    /\ Cardinality(DOMAIN session.chunks) = session.totalChunks
    /\ session.receivedBytes = session.totalSize

\* POST /api/upload/complete?uploadId=u&quality=..&progress=..
Complete(u, quality, progress) ==
    /\ UNCHANGED items
    /\ IF u \notin DOMAIN UPLOAD_SESSIONS
       THEN /\ resp' = [op |-> "complete", error |-> "upload_not_found"]
            /\ UNCHANGED <<uuids, RESULT_CACHE, COMPRESSED_HASH_INDEX, JOBS, CALLS,
                           LIMITERS, UPLOAD_SESSIONS>>
       ELSE LET session == UPLOAD_SESSIONS[u]
                full == Concat(Ordered(session))
                q == ClampQuality(quality, session.quality)
                clientId == IF session.clientId # NoClient THEN session.clientId ELSE u
                jobId == uuids + 1
                call == CallBegin(NewCall(clientId, full, session.mime, q, session.hash))
                s == Settle(0, LIMITERS, MapPut(CALLS, <<0, u>>, call), FALSE)
            IN
            IF ~SessionComplete(session)
            THEN /\ resp' = [op |-> "complete", error |-> "incomplete_upload"]
                 /\ UNCHANGED <<uuids, RESULT_CACHE, COMPRESSED_HASH_INDEX, JOBS, CALLS,
                                LIMITERS, UPLOAD_SESSIONS>>
            ELSE IF \E i \in 0..(session.totalChunks - 1) : i \notin DOMAIN session.chunks
            THEN /\ resp' = [op |-> "complete", error |-> "missing_chunk"]
                 /\ UNCHANGED <<uuids, RESULT_CACHE, COMPRESSED_HASH_INDEX, JOBS, CALLS,
                                LIMITERS, UPLOAD_SESSIONS>>
            ELSE IF progress = "1"
            THEN /\ UPLOAD_SESSIONS' = MapDel(UPLOAD_SESSIONS, u)
                 /\ uuids' = jobId
                 /\ JOBS' = MapPut(JOBS, jobId, NewJob(clientId, full, q))
                 /\ resp' = [op |-> "complete", error |-> "", async |-> TRUE,
                             jobId |-> jobId, id |-> clientId, quality |-> q]
                 /\ UNCHANGED <<RESULT_CACHE, COMPRESSED_HASH_INDEX, CALLS, LIMITERS>>
            ELSE /\ UPLOAD_SESSIONS' = MapDel(UPLOAD_SESSIONS, u)
                 /\ CALLS' = s.calls
                 /\ resp' = s.resp
                 /\ UNCHANGED <<uuids, RESULT_CACHE, COMPRESSED_HASH_INDEX, JOBS, LIMITERS>>

\* Mutant of cleanupUploadSessions: a session is swept as soon as it is as
\* old as the TTL.
cleanupUploadSessionsEarly ==
    /\ UPLOAD_SESSIONS' = [u \in {v \in DOMAIN UPLOAD_SESSIONS :
                                    ~(UPLOAD_SESSIONS[v].idle >= CHUNK_SESSION_TTL)} |->
                              UPLOAD_SESSIONS[u]]
    /\ resp' = NoResp
    /\ UNCHANGED <<uuids, RESULT_CACHE, COMPRESSED_HASH_INDEX, JOBS, CALLS, LIMITERS>>
    /\ UNCHANGED items

\* setInterval(cleanupUploadSessions, 60 * 1000)
cleanupUploadSessions ==
    /\ UPLOAD_SESSIONS' = [u \in {v \in DOMAIN UPLOAD_SESSIONS :
                                    ~(UPLOAD_SESSIONS[v].idle > CHUNK_SESSION_TTL)} |->
                              UPLOAD_SESSIONS[u]]
    /\ resp' = NoResp
    /\ UNCHANGED <<uuids, RESULT_CACHE, COMPRESSED_HASH_INDEX, JOBS, CALLS, LIMITERS>>
    /\ UNCHANGED items


----------------------------------------------------------------------------
(* The client's upload queue (useUploadQueue) *)

NoJob == 0                    \* jobId: undefined

\* sendSingleFile after the server has answered a progress=1 request: the
\* item of the file takes the job id of its record in the answer (or of the
\* first record) and enters the compress phase.  The queue holds the item
\* from here on.
jobAssigned ==
    /\ resp.op = "compress" /\ resp.async
    /\ resp.items # <<>>
    /\ LET target == resp.items[1].id
           found == {k \in DOMAIN resp.items : resp.items[k].id = target}
           jobInfo == resp.items[CHOOSE k \in found : \A k2 \in found : k <= k2]
       IN  items' = MapPut(items, target,
                           [phase |-> "compress", compressionProgress |-> 0,
                            jobId |-> jobInfo.jobId, error |-> ""])
    /\ resp' = NoResp
    /\ UNCHANGED <<uuids, RESULT_CACHE, COMPRESSED_HASH_INDEX, JOBS, CALLS, LIMITERS,
                   UPLOAD_SESSIONS>>

\* snapshot.filter((i) => i.jobId && i.phase === "compress")
activeJobs == {i \in DOMAIN items : items[i].jobId # NoJob /\ items[i].phase = "compress"}

\* Array.from(new Set(...)): the elements of a set of job ids as a sequence.
RECURSIVE IdsOf(_)
IdsOf(S) ==
    IF S = {} THEN <<>>
    ELSE LET j == CHOOSE j \in S : \A j2 \in S : j <= j2
         IN  <<j>> \o IdsOf(S \ {j})

\* tick() of the batch poll, up to its fetch: GET /api/jobs for the job ids
\* of the items in the compress phase.  Without such an item the interval
\* is cleared and nothing is sent.
tick ==
    /\ activeJobs # {}
    /\ PollJobs(IdsOf({items[i].jobId : i \in activeJobs}))

\* rec.error of a record of the answer
ErrorOf(rec) == IF "error" \in DOMAIN rec THEN rec.error ELSE ""

\* The update of one queue item by the answer of the batch poll (the
\* function given to setItems).  A done job always carries a downloadUrl.
ApplyPoll(it, list) ==
    LET found == {k \in DOMAIN list : list[k].jobId = it.jobId}
        rec == list[CHOOSE k \in found : \A k2 \in found : k <= k2]
    IN  IF it.jobId = NoJob \/ found = {} THEN it
        ELSE IF ErrorOf(rec) # ""
        THEN [it EXCEPT !.phase = "error", !.error = ErrorOf(rec),
                        !.compressionProgress = 100, !.jobId = NoJob]
        ELSE IF "phase" \in DOMAIN rec /\ rec.phase = "done"
        THEN [it EXCEPT !.phase = "download", !.compressionProgress = 100,
                        !.jobId = NoJob]
        ELSE [it EXCEPT !.phase = "compress",
                        !.compressionProgress =
                            IF "progress" \in DOMAIN rec THEN rec.progress ELSE 0]

\* tick() after its fetch: setItems((prev) => prev.map(...))
tickResponse ==
    /\ resp.op = "jobs"
    /\ items' = [i \in DOMAIN items |-> ApplyPoll(items[i], resp.items)]
    /\ resp' = NoResp
    /\ UNCHANGED <<uuids, RESULT_CACHE, COMPRESSED_HASH_INDEX, JOBS, CALLS, LIMITERS,
                   UPLOAD_SESSIONS>>

----------------------------------------------------------------------------
(* Specifications *)

Outcomes == {"ok", "timeout", "throw"}

\* The result cache under any number of synchronous compress requests of
\* one file each, the TTL sweep and the passing of time.
CacheFiles == [clientId : ClientIds, buffer : {<<1, 2>>}, mime : {"image/png"}]
CacheSizes == {1, 5}

NextCache ==
    \/ Tick
    \/ CacheSweep
    \/ \E f \in CacheFiles : CompressSync(<<f>>, 70)
    \/ CallStep(BOOLEAN, PixelCounts, Outcomes, CacheSizes)

SpecCache == Init /\ [][NextCache]_vars

\* The upload protocol up to the hand-off, for any client: sessions without
\* content hash, chunks of any bytes at any index.
UploadSizes == {-1, 3}
UploadChunkCounts == {2}
ChunkData == {<<1>>, <<2, 1>>}
ChunkIndices == -1..2

NextUpload ==
    \/ \E size \in UploadSizes, totalChunks \in UploadChunkCounts :
          /\ uuids < MaxUploads
          /\ UploadInit("a.png", size, "image/png", totalChunks, 70, NoHash, NoClient)
    \/ \E u \in 1..MaxUploads, idx \in ChunkIndices, hasFile \in BOOLEAN, data \in ChunkData :
          PutChunk(u, idx, hasFile, data)
    \/ \E u \in 1..MaxUploads, progress \in {"", "1"} :
          /\ progress = "1" => uuids < MaxUploads
          /\ Complete(u, 0, progress)

SpecUpload == Init /\ [][NextUpload]_vars

\* Compress requests of one file on both paths: progress=1 requests (one
\* job each) and synchronous requests, on an image that needs no resize or
\* one, with an encoder that answers in time or not.
CompressFiles == [clientId : {101}, buffer : {<<1, 2>>}, mime : {"image/png"}]
CompressPixels == {1, 2}
CompressSizes == {1, 3}

NextCompress ==
    \/ \E f \in CompressFiles :
          /\ uuids < MaxJobs
          /\ CompressAsync(<<f>>, 70)
    \/ \E f \in CompressFiles : CompressSync(<<f>>, 70)
    \/ JobStep({FALSE}, CompressPixels, {"ok", "timeout"}, CompressSizes)
    \/ CallStep({FALSE}, CompressPixels, {"ok", "timeout"}, CompressSizes)

SpecCompress == Init /\ [][NextCompress]_vars

\* Uploads by clients that follow the protocol of chunkUploadFile: the
\* hash sent to init is the digest of the file, the file is sent as its one
\* chunk, and complete is called on either path.
DedupFiles == {<<1, 2>>, <<2, 2>>}
DedupClients == {101}
DedupPixels == {1, 2}
DedupSizes == {1}

NextDedup ==
    \/ \E f \in DedupFiles, q \in Qualities, c \in DedupClients :
          /\ uuids < MaxUuids
          /\ UploadInit("a.png", Len(f), "image/png", 1, q, hashFileSHA256(f), c)
    \/ \E u \in DOMAIN UPLOAD_SESSIONS, f \in DedupFiles :
          /\ UPLOAD_SESSIONS[u].hash = hashFileSHA256(f)
          /\ PutChunk(u, 0, TRUE, f)
    \/ \E u \in DOMAIN UPLOAD_SESSIONS, progress \in {"", "1"} :
          /\ progress = "1" => uuids < MaxUuids
          /\ Complete(u, 0, progress)
    \/ JobStep({FALSE}, DedupPixels, {"ok"}, DedupSizes)
    \/ CallStep({FALSE}, DedupPixels, {"ok"}, DedupSizes)

SpecDedup == Init /\ [][NextDedup]_vars

\* The life of progress jobs: progress=1 requests of one file and every
\* outcome of every codec call, the probe of an image above the hard ceiling
\* and an output the cache cannot admit included.
NextJobs ==
    \/ \E f \in CompressFiles :
          /\ uuids < MaxJobs
          /\ CompressAsync(<<f>>, 70)
    \/ JobStep(BOOLEAN, PixelCounts, Outcomes, OutSizes)

SpecJobs == Init /\ [][NextJobs]_vars

\* Jobs whose codec calls may also never return.  The event loop runs
\* every callback that is due, so each job's next turn is taken as long as
\* the codec answers; whether it answers is the codec's choice.
NextJobsLive ==
    \/ \E f \in CompressFiles :
          /\ uuids < MaxJobs
          /\ CompressAsync(<<f>>, 70)
    \/ JobStep(BOOLEAN, PixelCounts, Outcomes, OutSizes)
    \/ \E j \in DOMAIN JOBS : JobHang(j)

SpecJobsLive ==
    /\ Init
    /\ [][NextJobsLive]_vars
    /\ \A j \in 1..MaxJobs :
          WF_vars(JobTurn(j, BOOLEAN, PixelCounts, Outcomes, OutSizes) \/ JobHang(j))

\* The result cache as in SpecCache, with clients fetching results.
NextFetch ==
    \/ NextCache
    \/ \E id \in ClientIds : Download(id)

SpecFetch == Init /\ [][NextFetch]_vars

\* One limiter and the tasks handed to it, submissions and settlements in
\* any order; a task fulfils or rejects with some value.  Every started
\* task settles (the condition of the limiter's guarantees).
TaskOutcomes == [state : {"fulfilled", "rejected"}, value : {"a", "b"}]

NextLimiter ==
    \/ CreateLimiter(1)
    \/ /\ Cardinality(TasksOf(CALLS, 1)) < MaxTasks
       /\ Limit(1)
    \/ \E k \in DOMAIN CALLS, outcome \in TaskOutcomes : TaskSettles(k, outcome)

SpecLimiter ==
    /\ Init
    /\ [][NextLimiter]_vars
    /\ \A i \in 1..MaxTasks :
          WF_vars(\E outcome \in TaskOutcomes : TaskSettles(<<1, i>>, outcome))

\* Synchronous batches: requests of several files, supported or not, two
\* of them under the same client id, with every outcome of every codec call.
BatchPng(id) == [clientId |-> id, buffer |-> <<1, 2>>, mime |-> "image/png"]
BatchGif(id) == [clientId |-> id, buffer |-> <<1, 2>>, mime |-> "image/gif"]
Batches ==
    { <<BatchPng(101), BatchGif(102), BatchPng(101)>>,
      <<BatchGif(101), BatchGif(102)>> }

NextBatch ==
    \/ \E files \in Batches : CompressSync(files, 70)
    \/ CallStep(BOOLEAN, PixelCounts, Outcomes, OutSizes)

SpecBatch == Init /\ [][NextBatch]_vars

\* Uploads with a content hash on the synchronous path, while time passes
\* and the cache's TTL sweep removes results the dedup index still names.
StaleFiles == {<<1, 2>>, <<2, 2>>}

NextStale ==
    \/ Tick
    \/ CacheSweep
    \/ \E f \in StaleFiles :
          /\ uuids < MaxUploads \/ ResumeMatches("a.png", Len(f), "image/png", hashFileSHA256(f)) # {}
          /\ UploadInit("a.png", Len(f), "image/png", 1, 70, hashFileSHA256(f), 101)
    \/ \E u \in DOMAIN UPLOAD_SESSIONS, f \in StaleFiles :
          /\ UPLOAD_SESSIONS[u].hash = hashFileSHA256(f)
          /\ PutChunk(u, 0, TRUE, f)
    \/ \E u \in DOMAIN UPLOAD_SESSIONS : Complete(u, 0, "")
    \/ CallStep({FALSE}, {1}, {"ok"}, {1})

SpecStale == Init /\ [][NextStale]_vars

\* Uploads that stall: sessions that never receive all their bytes, while
\* time passes and the session sweep runs.
SweepIndices == {0, 1}
SweepData == {<<1>>}

NextSweep ==
    \/ Tick
    \/ cleanupUploadSessions
    \/ /\ uuids < MaxUploads
       /\ UploadInit("a.png", 3, "image/png", 2, 70, NoHash, NoClient)
    \/ \E u \in 1..MaxUploads, idx \in SweepIndices, data \in SweepData :
          PutChunk(u, idx, TRUE, data)
    \/ \E u \in 1..MaxUploads : Complete(u, 0, "")

SpecSweep == Init /\ [][NextSweep]_vars

\* Uploads a client cancels: chunk requests reach the server before and
\* after the cancellation (requests already on their way, or another
\* holder of the upload id), and the session sweep runs.
NextAbort ==
    \/ Tick
    \/ cleanupUploadSessions
    \/ /\ uuids < MaxUploads
       /\ UploadInit("a.png", 3, "image/png", 2, 70, NoHash, NoClient)
    \/ \E u \in DOMAIN UPLOAD_SESSIONS : CancelChunk(u)
    \/ \E u \in 1..MaxUploads, idx \in SweepIndices, data \in SweepData :
          PutChunk(u, idx, TRUE, data)

SpecAbort == Init /\ [][NextAbort]_vars

\* Jobs to their end and after it: late codec settlements, time, and the
\* single-job poll that removes a job.
SettledPixels == {1, 3}       \* within MAX_PIXELS, and beyond HARD_PIXELS
SettledSizes == {1, 3}

NextSettled ==
    \/ Tick
    \/ \E f \in CompressFiles :
          /\ uuids < MaxJobs
          /\ CompressAsync(<<f>>, 70)
    \/ JobStep(BOOLEAN, SettledPixels, Outcomes, SettledSizes)
    \/ \E j \in DOMAIN JOBS : JobLateSettle(j)
    \/ \E jobId \in 1..MaxJobs : PollJob(jobId)

SpecSettled == Init /\ [][NextSettled]_vars

\* Clients polling their jobs, one by one or in batches, while time passes.
PollIds == 1..(MaxJobs + 1)
PollBatches == {<<a>> : a \in PollIds} \cup {<<a, b>> : a \in PollIds, b \in PollIds}
PollPixels == {1, 2}
PollSizes == {1}

NextPoll ==
    \/ Tick
    \/ \E f \in CompressFiles :
          /\ uuids < MaxJobs
          /\ CompressAsync(<<f>>, 70)
    \/ JobStep({FALSE}, PollPixels, {"ok", "timeout"}, PollSizes)
    \/ \E jobId \in PollIds : PollJob(jobId)
    \/ \E ids \in PollBatches : PollJobs(ids)

SpecPoll == Init /\ [][NextPoll]_vars

\* Jobs, polls and everything the server does on its own: time passes, the
\* interval sweep runs, each job takes its turns.  Polls are the clients'
\* choice and nothing forces them.
NextGrace ==
    \/ Tick
    \/ CacheSweep
    \/ \E f \in CompressFiles :
          /\ uuids < MaxJobs
          /\ CompressAsync(<<f>>, 70)
    \/ JobStep({FALSE}, PollPixels, {"ok", "timeout"}, PollSizes)
    \/ \E jobId \in PollIds : PollJob(jobId)
    \/ \E ids \in PollBatches : PollJobs(ids)

SpecGrace ==
    /\ Init
    /\ [][NextGrace]_vars
    /\ WF_vars(Tick)
    /\ WF_vars(CacheSweep)
    /\ \A j \in 1..MaxJobs :
          WF_vars(JobTurn(j, {FALSE}, PollPixels, {"ok", "timeout"}, PollSizes))


\* Uploads that are completed more than once: every chunk arrives, then
\* complete calls for the same upload id race on either path, and chunk
\* requests keep coming.
HandoffIndices == {0, 1}
HandoffData == {<<1>>}

NextHandoff ==
    \/ /\ uuids < MaxUploads
       /\ UploadInit("a.png", 2, "image/png", 2, 70, NoHash, NoClient)
    \/ \E u \in 1..MaxUploads, idx \in HandoffIndices, data \in HandoffData :
          PutChunk(u, idx, TRUE, data)
    \/ \E u \in 1..MaxUploads, progress \in {"", "1"} :
          /\ progress = "1" => uuids < MaxUuids
          /\ Complete(u, 0, progress)

SpecHandoff == Init /\ [][NextHandoff]_vars


\* Chunk requests with any query string: upload ids with and without a
\* session, and index values that are numerals, blank, or no number at all.
IndexStrings ==
    {<<>>, <<" ">>, <<"0">>, <<"1">>, <<"2">>, <<"-", "1">>, <<"1", ".", "5">>, <<"a">>}
ChunkQueries ==
    {[uploadId |-> u, index |-> str] : u \in 1..MaxUploads, str \in IndexStrings}
        \cup {[uploadId |-> u] : u \in 1..MaxUploads}

NextChunk ==
    \/ Tick
    \/ /\ uuids < MaxUploads
       /\ UploadInit("a.png", 3, "image/png", 2, 70, NoHash, NoClient)
    \/ \E query \in ChunkQueries, hasFile \in BOOLEAN, data \in SweepData :
          ChunkRequest(query, hasFile, data)

SpecChunk == Init /\ [][NextChunk]_vars


\* Uploads with a content hash that are interrupted and resumed: clients
\* with their own chunk size begin the same file again, chunks arrive once
\* or again, time passes and the session sweep runs.
ResumeFile == <<1, 2, 1>>
ResumeChunkCounts == {2, 3}

NextResume ==
    \/ Tick
    \/ cleanupUploadSessions
    \/ \E totalChunks \in ResumeChunkCounts :
          /\ \/ uuids < MaxUploads
             \/ ResumeMatches("a.png", Len(ResumeFile), "image/png",
                              hashFileSHA256(ResumeFile)) # {}
          /\ UploadInit("a.png", Len(ResumeFile), "image/png", totalChunks, 70,
                        hashFileSHA256(ResumeFile), 101)
    \/ \E u \in 1..MaxUploads, idx \in SweepIndices, data \in SweepData :
          PutChunk(u, idx, TRUE, data)

SpecResume == Init /\ [][NextResume]_vars


\* Recompressions: the same item is submitted again at another quality
\* while its previous job may still be running, and the codec finishes the
\* jobs in any order.
RecompressQualities == {40, 70}
RecompressSizes == {1}

NextRecompress ==
    \/ Tick
    \/ \E f \in CompressFiles, quality \in RecompressQualities :
          /\ uuids < MaxJobs
          /\ CompressAsync(<<f>>, quality)
    \/ JobStep({FALSE}, CompressPixels, {"ok", "timeout"}, RecompressSizes)

SpecRecompress == Init /\ [][NextRecompress]_vars


\* A client with its queue: it submits files with progress=1, takes the job
\* ids from the answer and polls its jobs in batches; the jobs take their
\* turns, time passes, and anybody may query a single job.  The client
\* handles an answer before anything else happens.
ClientFiles == [clientId : {101}, buffer : {<<1, 2>>}, mime : {"image/png"}]
Answered == resp.op = "jobs" \/ (resp.op = "compress" /\ resp.async)

NextClient ==
    \/ ~Answered /\ Tick
    \/ \E f \in ClientFiles :
          /\ ~Answered
          /\ uuids < MaxJobs
          /\ CompressAsync(<<f>>, 70)
    \/ ~Answered /\ JobStep({FALSE}, PollPixels, {"ok", "timeout"}, PollSizes)
    \/ \E jobId \in 1..MaxJobs : ~Answered /\ PollJob(jobId)
    \/ ~Answered /\ tick
    \/ jobAssigned
    \/ tickResponse

SpecClient ==
    /\ Init
    /\ [][NextClient]_vars
    /\ WF_vars(~Answered /\ Tick)
    /\ WF_vars(~Answered /\ tick)
    /\ WF_vars(jobAssigned)
    /\ WF_vars(tickResponse)
    /\ \A j \in 1..MaxJobs :
          WF_vars(~Answered /\ JobTurn(j, {FALSE}, PollPixels, {"ok", "timeout"}, PollSizes))

Next ==
    NextCache \/ NextUpload \/ NextCompress \/ NextDedup \/ NextJobs \/ NextJobsLive
    \/ NextPoll \/ NextFetch \/ NextLimiter \/ NextSettled \/ NextBatch
    \/ NextStale \/ NextSweep \/ NextAbort \/ NextGrace \/ NextHandoff \/ NextChunk \/ NextResume \/ NextRecompress \/ NextClient

Spec == Init /\ [][Next]_vars

----------------------------------------------------------------------------
(* Claims *)

\* C1: in every reachable state the sizes of the resident cache entries sum
\* to at most MAX_CACHE_BYTES and there are at most MAX_CACHE_ITEMS entries
\* (each under a key of its own), whatever insertions, overwrites, pressure
\* evictions and TTL sweeps came before.
C1_CacheBudgets ==
    /\ currentCacheBytes <= MAX_CACHE_BYTES
    /\ Len(RESULT_CACHE) <= MAX_CACHE_ITEMS
    /\ \A i, j \in DOMAIN RESULT_CACHE : RESULT_CACHE[i].key = RESULT_CACHE[j].key => i = j

\* A compress request has just stored its result and both budgets are
\* exhausted.
C1_Witness ==
    /\ resp.op = "compress" /\ resp.success = 1
    /\ Len(RESULT_CACHE) = MAX_CACHE_ITEMS
    /\ currentCacheBytes = MAX_CACHE_BYTES

\* C14: when the insertion of a result removes an unexpired entry from the
\* cache, no other entry that stays resident was created before it (a
\* re-insertion under its key counting as a new creation): every
\* survivor's age is at most the age of the evicted entry.
C14_EvictsOldest ==
    [][\A k \in DOMAIN CALLS, outcome \in Outcomes, n \in CacheSizes :
          CallEncoded(k, outcome, n) =>
             \A i, i2 \in DOMAIN RESULT_CACHE :
                ( /\ RESULT_CACHE[i].key # CALLS[k].id
                  /\ RESULT_CACHE[i2].key # CALLS[k].id
                  /\ ~Expired(RESULT_CACHE[i])
                  /\ ~CacheHas(RESULT_CACHE', RESULT_CACHE[i].key)
                  /\ CacheHas(RESULT_CACHE', RESULT_CACHE[i2].key) )
                => RESULT_CACHE[i2].age <= RESULT_CACHE[i].age]_vars

\* C16: a download answers 404 whenever no entry exists under the id or
\* the entry under it is older than the cache TTL; it never serves the
\* bytes of an expired entry.
C16_NoExpiredDownload ==
    ( /\ resp.op = "download"
      /\ \/ ~CacheHas(RESULT_CACHE, resp.id)
         \/ Expired(CacheGet(RESULT_CACHE, resp.id)) )
    => resp.status = 404

----------------------------------------------------------------------------
(* Claims on compression *)

\* processJob frames and compressBuffer frames awaiting a sharp call.
InCodec ==
    Cardinality({j \in DOMAIN JOBS : JOBS[j].pc \in {"metadata", "resize", "encode"}})
    + Cardinality({k \in DOMAIN CALLS : CALLS[k].pc \in {"metadata", "encode"}})

\* C2: at no point are more than LIMIT codec invocations executing in the
\* process, counting the jobs started by scheduleJob and the compressBuffer
\* calls of every synchronous request.
C2_ConcurrencyBound == InCodec <= LIMIT

\* C3: when the encoder of a job that was not resized returns n bytes and
\* the job succeeds (processJob reaches done, compressBuffer stores its
\* result), the stored result is no larger than the input, and it is the
\* input itself when n is not smaller than the input's length.
C3_NoGrowth ==
    [][/\ \A j \in DOMAIN JOBS, n \in CompressSizes :
             ( /\ JobEncoded(j, "ok", n)
               /\ ~JOBS[j].scaled
               /\ JOBS'[j].phase = "done" )
             => LET e == CacheGet(RESULT_CACHE', JOBS'[j].resultId)
                IN  /\ CacheHas(RESULT_CACHE', JOBS'[j].resultId)
                    /\ e.size <= Len(JOBS[j].buffer)
                    /\ JOBS'[j].compressedSize = e.size
                    /\ e.buffer.n = e.size
                    /\ n >= Len(JOBS[j].buffer) =>
                          e.buffer.kind = "raw" /\ e.buffer.src = JOBS[j].buffer
       /\ \A k \in DOMAIN CALLS, n \in CompressSizes :
             ( /\ CallEncoded(k, "ok", n)
               /\ ~CALLS[k].scaled
               /\ CacheHas(RESULT_CACHE', CALLS[k].id) )
             => LET e == CacheGet(RESULT_CACHE', CALLS[k].id)
                IN  /\ e.size <= Len(CALLS[k].buffer)
                    /\ e.buffer.n = e.size
                    /\ n >= Len(CALLS[k].buffer) =>
                          e.buffer.kind = "raw" /\ e.buffer.src = CALLS[k].buffer]_vars

\* A job is done whose result in the cache is its own input, kept in place
\* of a larger output.
C3_Witness ==
    \E j \in DOMAIN JOBS :
        /\ JOBS[j].phase = "done"
        /\ CacheHas(RESULT_CACHE, JOBS[j].resultId)
        /\ CacheGet(RESULT_CACHE, JOBS[j].resultId).buffer = Raw(JOBS[j].buffer)
        /\ JOBS[j].compressedSize = Len(JOBS[j].buffer)

----------------------------------------------------------------------------
(* Claims on deduplication *)

\* The cache holds the output of compressing the content with this hash at
\* this quality.
ResultResident(hash, quality) ==
    \E i \in DOMAIN RESULT_CACHE :
        /\ hashFileSHA256(RESULT_CACHE[i].buffer.src) = hash
        /\ RESULT_CACHE[i].buffer.kind = "enc"
        /\ RESULT_CACHE[i].buffer.q = quality

\* C8: once an upload with a content hash has been completed and compressed
\* (by complete itself or by the job it handed off to) and its result is
\* resident, an init with the same (hash, quality) answers instant: true
\* (and so opens no session).
C8_DedupAfterCompletion ==
    ( /\ resp.op = "init" /\ resp.error = ""
      /\ ResultResident(resp.hash, resp.quality) )
    => resp.instant

\* C9: whenever init answers instant: true for (hash, quality), the cache
\* entry it names holds the output of compressing the content with that
\* hash, at that quality if it is an encoder output.
C9_InstantContent ==
    ( /\ resp.op = "init" /\ resp.error = ""
      /\ resp.instant )
    => LET b == CacheGet(RESULT_CACHE, resp.id).buffer
       IN  /\ hashFileSHA256(b.src) = resp.hash
           /\ b.kind = "enc" => b.q = resp.quality

----------------------------------------------------------------------------
(* Claims on the upload protocol *)

\* Sum of the byte lengths of the chunks a session stores.
RECURSIVE StoredBytesOf(_, _)
StoredBytesOf(chunks, indices) ==
    IF indices = {} THEN 0
    ELSE LET i == CHOOSE i \in indices : TRUE
         IN  Len(chunks[i]) + StoredBytesOf(chunks, indices \ {i})

StoredBytes(session) == StoredBytesOf(session.chunks, DOMAIN session.chunks)

\* The chunks 0..last joined in index order.
RECURSIVE InIndexOrder(_, _)
InIndexOrder(chunks, last) ==
    IF last < 0 THEN <<>> ELSE InIndexOrder(chunks, last - 1) \o chunks[last]

HoldsEveryIndex(session) ==
    \A i \in 0..(session.totalChunks - 1) : i \in DOMAIN session.chunks

\* C4: a putChunk for an index the session already holds answers
\* duplicate: true with the session's current receivedBytes and leaves every
\* session (its receivedBytes and stored chunks) exactly as it was, so any
\* number of repetitions has the same effect.
C4_DuplicateChunk ==
    [][\A u \in 1..MaxUploads, idx \in ChunkIndices, hasFile \in BOOLEAN, data \in ChunkData :
          ( /\ u \in DOMAIN UPLOAD_SESSIONS
            /\ idx \in DOMAIN UPLOAD_SESSIONS[u].chunks
            /\ PutChunk(u, idx, hasFile, data) )
          => /\ resp'.error = ""
             /\ resp'.duplicate
             /\ resp'.received = UPLOAD_SESSIONS[u].receivedBytes
             /\ UPLOAD_SESSIONS' = UPLOAD_SESSIONS]_vars

\* A chunk has just been answered as a duplicate by a session that holds
\* bytes.
C4_Witness ==
    /\ resp.op = "chunk" /\ resp.error = ""
    /\ resp.duplicate
    /\ resp.received > 0
    /\ resp.uploadId \in DOMAIN UPLOAD_SESSIONS
    /\ UPLOAD_SESSIONS[resp.uploadId].receivedBytes = resp.received

\* C5: every session in the store has receivedBytes <= its declared total
\* size, and receivedBytes equal to the sum of the lengths of its stored
\* chunks.
C5_SessionInvariant ==
    \A u \in DOMAIN UPLOAD_SESSIONS :
        /\ UPLOAD_SESSIONS[u].receivedBytes <= UPLOAD_SESSIONS[u].totalSize
        /\ UPLOAD_SESSIONS[u].receivedBytes = StoredBytes(UPLOAD_SESSIONS[u])

\* C6: a complete for a session that lacks a chunk index or whose
\* receivedBytes differs from the declared size fails with incomplete_upload
\* or missing_chunk, creates no job, no compressBuffer call and no cache
\* entry, and leaves the sessions unchanged; a complete that hands off has
\* found every index present and receivedBytes equal to the declared size.
C6_CompleteOnlyWhenWhole ==
    [][\A u \in 1..MaxUploads, progress \in {"", "1"} :
          (u \in DOMAIN UPLOAD_SESSIONS /\ Complete(u, 0, progress))
          => LET session == UPLOAD_SESSIONS[u]
                 whole == /\ HoldsEveryIndex(session)
                          /\ session.receivedBytes = session.totalSize
             IN  /\ (JOBS' # JOBS \/ CALLS' # CALLS) => whole
                 /\ ~whole =>
                       /\ resp'.error \in {"incomplete_upload", "missing_chunk"}
                       /\ UNCHANGED <<UPLOAD_SESSIONS, JOBS, CALLS, RESULT_CACHE>>]_vars

\* A complete has just failed on a session that holds every index but
\* fewer bytes than declared; the session is still there.
C6_Witness ==
    /\ resp.op = "complete" /\ resp.error = "incomplete_upload"
    /\ \E u \in DOMAIN UPLOAD_SESSIONS :
          /\ HoldsEveryIndex(UPLOAD_SESSIONS[u])
          /\ UPLOAD_SESSIONS[u].receivedBytes < UPLOAD_SESSIONS[u].totalSize

\* C7: a missing index whose bytes fit the declared size is accepted
\* whatever was received before it, and receivedBytes is then the sum of
\* the lengths of the stored chunks; once every index is held and those
\* lengths sum to the declared size, complete removes the session and hands
\* off the chunks joined in index order 0..totalChunks-1.
C7_ResumeInAnyOrder ==
    [][/\ \A u \in 1..MaxUploads, idx \in ChunkIndices, data \in ChunkData :
             ( /\ u \in DOMAIN UPLOAD_SESSIONS
               /\ idx \in 0..(UPLOAD_SESSIONS[u].totalChunks - 1)
               /\ idx \notin DOMAIN UPLOAD_SESSIONS[u].chunks
               /\ StoredBytes(UPLOAD_SESSIONS[u]) + Len(data) <= UPLOAD_SESSIONS[u].totalSize
               /\ PutChunk(u, idx, TRUE, data) )
             => /\ u \in DOMAIN UPLOAD_SESSIONS'
                /\ UPLOAD_SESSIONS'[u].chunks =
                      [i \in DOMAIN UPLOAD_SESSIONS[u].chunks \cup {idx} |->
                          IF i = idx THEN data ELSE UPLOAD_SESSIONS[u].chunks[i]]
                /\ UPLOAD_SESSIONS'[u].receivedBytes = StoredBytes(UPLOAD_SESSIONS'[u])
       /\ \A u \in 1..MaxUploads, progress \in {"", "1"} :
             ( /\ u \in DOMAIN UPLOAD_SESSIONS
               /\ HoldsEveryIndex(UPLOAD_SESSIONS[u])
               /\ StoredBytes(UPLOAD_SESSIONS[u]) = UPLOAD_SESSIONS[u].totalSize
               /\ Complete(u, 0, progress) )
             => LET joined == InIndexOrder(UPLOAD_SESSIONS[u].chunks,
                                           UPLOAD_SESSIONS[u].totalChunks - 1)
                IN  /\ u \notin DOMAIN UPLOAD_SESSIONS'
                    /\ IF progress = "1"
                       THEN resp'.error = "" /\ JOBS'[resp'.jobId].buffer = joined
                       ELSE CALLS'[<<0, u>>].buffer = joined]_vars

\* The last chunk of a session has just been accepted, the chunks having
\* arrived in the order 1, 0, and their lengths sum to the declared size.
C7_Witness ==
    /\ resp.op = "chunk" /\ resp.error = ""
    /\ resp.done /\ ~resp.duplicate
    /\ resp.uploadId \in DOMAIN UPLOAD_SESSIONS
    /\ UPLOAD_SESSIONS[resp.uploadId].order = <<1, 0>>
    /\ UPLOAD_SESSIONS[resp.uploadId].receivedBytes = UPLOAD_SESSIONS[resp.uploadId].totalSize

\* The chunk bytes resident across all sessions.
RECURSIVE ResidentChunkBytes(_, _)
ResidentChunkBytes(sessions, ids) ==
    IF ids = {} THEN 0
    ELSE LET u == CHOOSE u \in ids : TRUE
         IN  StoredBytes(sessions[u]) + ResidentChunkBytes(sessions, ids \ {u})

\* C10: the chunk bytes resident across all upload sessions never exceed
\* CHUNK_MAX_SESSION_MEMORY, for any interleaving of init and putChunk over
\* several sessions.
C10_SessionMemoryBudget ==
    ResidentChunkBytes(UPLOAD_SESSIONS, DOMAIN UPLOAD_SESSIONS) <= CHUNK_MAX_SESSION_MEMORY
----------------------------------------------------------------------------
(* Claims on the life of a job *)

NonTerminal == {"queued", "decoding", "resizing", "encoding", "finalizing"}

PhaseOrder ==
    {<<"queued", "decoding">>, <<"decoding", "resizing">>, <<"decoding", "encoding">>,
     <<"resizing", "encoding">>, <<"encoding", "finalizing">>, <<"finalizing", "done">>}
    \cup {<<p, "error">> : p \in NonTerminal}

\* C11: the phases a job is assigned start at queued and change only along
\* queued -> decoding -> [resizing] -> encoding -> finalizing -> done or
\* from a non-terminal phase to error; no phase is entered twice and none
\* follows done or error.
C11_PhaseOrder ==
    \A j \in DOMAIN JOBS :
        LET log == JOBS[j].log
        IN  /\ log[1][1] = "queued"
            /\ log[Len(log)][1] = JOBS[j].phase
            /\ \A i \in 1..(Len(log) - 1) :
                  log[i][1] # log[i + 1][1] => <<log[i][1], log[i + 1][1]>> \in PhaseOrder
            /\ \A i, k \in DOMAIN log :
                  (i < k /\ log[i][1] = log[k][1]) =>
                      \A m \in i..k : log[m][1] = log[i][1]

\* A job has gone through resizing, encoding and finalizing and ended in
\* error there.
C11_Witness ==
    \E j \in DOMAIN JOBS :
        /\ JOBS[j].phase = "error"
        /\ \E i \in DOMAIN JOBS[j].log : JOBS[j].log[i][1] = "resizing"
        /\ \E i \in DOMAIN JOBS[j].log : JOBS[j].log[i][1] = "finalizing"

\* C12: every job in the job store eventually reaches phase done or error,
\* also when a codec call it awaits never returns.
C12_JobsTerminate ==
    \A j \in 1..MaxJobs :
        (j \in DOMAIN JOBS) ~> (j \in DOMAIN JOBS /\ JOBS[j].phase \in {"done", "error"})

\* C13: when the probe of a job reports more pixels than the hard ceiling,
\* the job ends in error dimensions_too_large in that turn without having
\* been assigned resizing, encoding or a later phase, and the result cache
\* and the dedup index are left as they were.
C13_TooLargeRejected ==
    [][\A j \in DOMAIN JOBS, px \in PixelCounts :
          (px > HARD_PIXELS /\ JobMetadata(j, FALSE, px))
          => /\ JOBS'[j].phase = "error"
             /\ JOBS'[j].error = "dimensions_too_large"
             /\ JOBS'[j].pc = "returned"
             /\ \A i \in DOMAIN JOBS'[j].log :
                   JOBS'[j].log[i][1] \in {"queued", "decoding", "error"}
             /\ UNCHANGED <<RESULT_CACHE, COMPRESSED_HASH_INDEX>>]_vars

\* A job has been rejected for its dimensions while another job's result is
\* in the cache.
C13_Witness ==
    /\ \E j \in DOMAIN JOBS : JOBS[j].error = "dimensions_too_large"
    /\ RESULT_CACHE # <<>>

\* C15: a batch progress query answers one record per requested id, with
\* missing: true for every id that is not in the job store and for every
\* terminal job older than the grace period.
C15_BatchPoll ==
    resp.op = "jobs" =>
       /\ Len(resp.items) = Len(resp.ids)
       /\ \A i \in DOMAIN resp.items :
             LET it == resp.items[i]
             IN  /\ it.jobId = resp.ids[i]
                 /\ it.jobId \notin DOMAIN JOBS => it.missing
                 /\ ( /\ it.jobId \in DOMAIN JOBS
                      /\ JOBS[it.jobId].phase \in {"done", "error"}
                      /\ JOBS[it.jobId].age > JOB_GRACE ) => it.missing

\* C20: the progress values a job is assigned never decrease and lie in
\* [0, 1] (0..100 percent); progress is 0 while the job is queued and 1 when
\* it is done.
C20_ProgressMonotonic ==
    \A j \in DOMAIN JOBS :
        LET log == JOBS[j].log
        IN  /\ log[Len(log)][2] = JOBS[j].progress
            /\ \A i \in DOMAIN log : log[i][2] \in 0..100
            /\ \A i \in 1..(Len(log) - 1) : log[i][2] <= log[i + 1][2]
            /\ \A i \in DOMAIN log : log[i][1] = "queued" => log[i][2] = 0
            /\ \A i \in DOMAIN log : log[i][1] = "done" => log[i][2] = 100

\* A job is done after a resize: it has been assigned 0, 5, 15, 40, 45, 95
\* and 100 percent.
C20_Witness ==
    \E j \in DOMAIN JOBS :
        /\ JOBS[j].phase = "done" /\ JOBS[j].progress = 100
        /\ \E i \in DOMAIN JOBS[j].log : JOBS[j].log[i] = <<"resizing", 40>>

----------------------------------------------------------------------------
(* Claims on the limiter *)

Started(k) == k \in DOMAIN CALLS /\ CALLS[k].pc # "queued"

Running(calls, r) == {k \in TasksOf(calls, r) : calls[k].pc = "running"}

\* C17: a limiter admits its tasks in FIFO order: of two tasks handed to
\* the same limiter, the one handed over first starts no later than the
\* other, whatever the interleaving of submissions and settlements; the
\* queue holds the waiting tasks in the order of their submission.
C17_Fifo ==
    \A r \in DOMAIN LIMITERS :
        /\ \A k, k2 \in TasksOf(CALLS, r) :
              (k[2] < k2[2] /\ Started(k2)) => Started(k)
        /\ \A a, b \in DOMAIN LIMITERS[r].queue :
              a < b => LIMITERS[r].queue[a] < LIMITERS[r].queue[b]

\* A task that waited in the queue has been started by a settlement while
\* a task handed over after it still waits.
C17_Witness ==
    \E k, k2 \in TasksOf(CALLS, 1) :
        /\ k[2] < k2[2]
        /\ CALLS[k].waited /\ CALLS[k].pc = "running"
        /\ CALLS[k2].pc = "queued"

\* C18: no task handed to a limiter is dropped: when every started task
\* settles in the end, every submitted task is started in the end.
C18_NoTaskDropped ==
    \A i \in 1..MaxTasks : (<<1, i>> \in DOMAIN CALLS) ~> Started(<<1, i>>)

\* More tasks than slots were handed over, and all of them have run.
C18_Witness ==
    /\ Cardinality(TasksOf(CALLS, 1)) > LIMIT
    /\ \A k \in TasksOf(CALLS, 1) : CALLS[k].pc = "settled"
    /\ LIMITERS[1].active = 0

\* C19: when a task settles, the promise limit() returned for it settles
\* with the same state and value; no other task's promise changes; the slot
\* is released and the head of the queue is admitted, whether the task was
\* fulfilled or rejected.
C19_OwnOutcome ==
    [][\A k \in DOMAIN CALLS, outcome \in TaskOutcomes :
          TaskSettles(k, outcome) =>
             LET r == k[1]
                 queue == LIMITERS[r].queue
             IN  /\ CALLS'[k].promise = outcome
                 /\ \A x \in DOMAIN CALLS \ {k} : CALLS'[x].promise = CALLS[x].promise
                 /\ \A x \in DOMAIN CALLS :
                       CALLS'[x].pc = IF x = k THEN "settled"
                                      ELSE IF queue # <<>> /\ x = <<r, Head(queue)>>
                                           THEN "running"
                                           ELSE CALLS[x].pc
                 /\ LIMITERS'[r].active = Cardinality(Running(CALLS', r))
                 /\ LIMITERS'[r].active <= LIMITERS[r].active]_vars

\* A task was rejected, another fulfilled, and a task that waited behind
\* them runs.
C19_Witness ==
    \E k, k2, k3 \in TasksOf(CALLS, 1) :
        /\ CALLS[k].promise.state = "rejected"
        /\ CALLS[k2].promise.state = "fulfilled"
        /\ CALLS[k3].waited /\ CALLS[k3].pc = "running"
        /\ CALLS[k3].promise = Unsettled

----------------------------------------------------------------------------
(* Claims on jobs after their end *)

Terminal(job) == job.phase \in {"done", "error"}

JobFields(job) ==
    <<job.phase, job.progress, job.error, job.resultId, job.compressedSize>>

\* C21: once a job's phase is done or error, none of its fields (phase,
\* progress, error, resultId, compressedSize; downloadUrl is a function of
\* resultId) changes again, also when the codec call that lost the race
\* against the timeout settles later; the job can only leave the store.
C21_TerminalImmutable ==
    [][\A j \in DOMAIN JOBS :
          Terminal(JOBS[j]) =>
             \/ j \notin DOMAIN JOBS'
             \/ /\ JobFields(JOBS'[j]) = JobFields(JOBS[j])
                /\ JOBS'[j].log = JOBS[j].log]_vars

\* A job timed out and its codec call has settled since.
C21_Witness ==
    \E j \in DOMAIN JOBS :
        /\ JOBS[j].error = "timeout"
        /\ ~JOBS[j].late

----------------------------------------------------------------------------
(* Claims on synchronous batches *)

Result(call) == <<call.pc = "returned", call.error, call.compressedSize>>

\* What the frame returns when metadata() settles, had the file been
\* submitted alone: nothing yet when the image passes the probe.
AloneMetadata(call, threw, totalPixels) ==
    IF threw THEN <<TRUE, "compress_failed", 0>>
    ELSE IF totalPixels > HARD_PIXELS THEN <<TRUE, "dimensions_too_large", 0>>
    ELSE <<FALSE, "", 0>>

\* What the frame returns when the encoder settles, had the file been
\* submitted alone to a server with an empty cache.
AloneEncoded(call, outcome, n) ==
    LET size == IF ~call.scaled /\ n >= Len(call.buffer) THEN Len(call.buffer) ELSE n
    IN  IF outcome = "throw" THEN <<TRUE, "compress_failed", 0>>
        ELSE IF outcome = "timeout" THEN <<TRUE, "timeout", 0>>
        ELSE IF size > MAX_CACHE_BYTES THEN <<TRUE, "cache_overflow", 0>>
        ELSE <<TRUE, "", size>>

\* A sibling of the frame that took the step: it keeps what it had, or, if
\* it waited in the queue, it has at most begun.
SiblingKept(x) ==
    IF x \in DOMAIN CALLS'
    THEN \/ CALLS'[x] = CALLS[x]
         \/ CALLS[x].pc = "queued" /\ CALLS'[x] = CallBegin(CALLS[x])
    ELSE \/ CALLS[x].pc = "returned"
         \/ CALLS[x].pc = "queued" /\ CallBegin(CALLS[x]).pc = "returned"

\* The items the response is made of: what every sibling had returned
\* (or returns on being admitted) and own for frame k.
ItemsAt(k, own) ==
    [x \in CallsOf(CALLS, k[1]) |->
        IF x = k THEN own
        ELSE IF CALLS[x].pc = "queued" THEN Result(CallBegin(CALLS[x]))
        ELSE Result(CALLS[x])]

StepOf(k, own) ==
    LET r == k[1]
        sent == ItemsAt(k, own)
        ok == Cardinality({x \in DOMAIN sent : sent[x][2] = ""})
    IN  /\ \A x \in CallsOf(CALLS, r) \ {k} : SiblingKept(x)
        /\ \A x \in DOMAIN CALLS \ CallsOf(CALLS, r) :
              x \in DOMAIN CALLS' /\ CALLS'[x] = CALLS[x]
        /\ IF k \in DOMAIN CALLS'
           THEN Result(CALLS'[k]) = own /\ resp' = NoResp
           ELSE /\ own[1]
                /\ resp'.op = "compress" /\ ~resp'.async
                /\ resp'.count = Cardinality(CallsOf(CALLS, r))
                /\ resp'.success = ok
                /\ resp'.failed = resp'.count - ok

\* C22: in a synchronous batch a file's failure never aborts its siblings:
\* a step of one frame leaves what its siblings returned as it was, the
\* frame returns what it would return submitted alone, and the response,
\* sent when the last frame returns, counts one item per submitted file
\* with success + failed = count.
C22_SiblingsUnaffected ==
    [][/\ \A k \in DOMAIN CALLS, threw \in BOOLEAN, px \in PixelCounts :
            CallMetadata(k, threw, px) => StepOf(k, AloneMetadata(CALLS[k], threw, px))
       /\ \A k \in DOMAIN CALLS, outcome \in Outcomes, n \in OutSizes :
            CallEncoded(k, outcome, n) => StepOf(k, AloneEncoded(CALLS[k], outcome, n))
       /\ \A files \in Batches :
            CompressSync(files, 70) =>
               IF resp' = NoResp
               THEN \E r \in DOMAIN LIMITERS' \ DOMAIN LIMITERS :
                       /\ Cardinality(CallsOf(CALLS', r)) = Len(files)
                       /\ \A i \in DOMAIN files : CALLS'[<<r, i>>].id = files[i].clientId
               ELSE /\ resp'.count = Len(files)
                    /\ resp'.success = 0 /\ resp'.failed = Len(files)]_vars

\* A batch of three has been answered with failures and a success side by
\* side.
C22_Witness ==
    /\ resp.op = "compress" /\ ~resp.async
    /\ resp.count = 3 /\ resp.success = 1 /\ resp.failed = 2

----------------------------------------------------------------------------
(* Claims on cache admission *)

Oversized == (MAX_CACHE_BYTES + 1)..(MAX_CACHE_BYTES + 2)

\* C23: a result larger than the cache's byte budget is rejected outright:
\* evictIfNeeded answers false and removes nothing, whatever the cache
\* holds; the job whose result it is ends in error cache_overflow with its
\* processJob returned (no retry), and the step leaves the result cache and
\* the dedup index as they were.
C23_OversizedRejected ==
    /\ [](\A x \in Oversized :
            evictIfNeeded(RESULT_CACHE, x) = [ok |-> FALSE, cache |-> RESULT_CACHE])
    /\ [][\A j \in DOMAIN JOBS, n \in OutSizes :
            ( /\ JobEncoded(j, "ok", n)
              /\ FinalBuffer(JOBS[j].buffer, JOBS[j].quality, JOBS[j].scaled, n).n
                    > MAX_CACHE_BYTES )
            => /\ RESULT_CACHE' = RESULT_CACHE
               /\ COMPRESSED_HASH_INDEX' = COMPRESSED_HASH_INDEX
               /\ JOBS'[j].phase = "error" /\ JOBS'[j].error = "cache_overflow"
               /\ JOBS'[j].pc = "returned"
               /\ JOBS'[j].resultId = NoClient]_vars

\* A job ended in cache_overflow while the cache held another result.
C23_Witness ==
    /\ RESULT_CACHE # <<>>
    /\ \E j \in DOMAIN JOBS :
          JOBS[j].error = "cache_overflow" /\ JOBS[j].phase = "error"

EntriesUnder(cache, key) == {i \in DOMAIN cache : cache[i].key = key}

\* C24: when a job stores its result under a key that is already resident,
\* the cache afterwards holds exactly one entry under that key, with the
\* new bytes, the new size and a fresh creation time, and holds no more
\* entries than before.
C24_ReinsertReplaces ==
    [][\A j \in DOMAIN JOBS, n \in OutSizes :
          ( /\ JobEncoded(j, "ok", n)
            /\ CacheHas(RESULT_CACHE, JOBS[j].clientId)
            /\ JOBS'[j].phase = "done" )
          => LET final == FinalBuffer(JOBS[j].buffer, JOBS[j].quality, JOBS[j].scaled, n)
                 under == EntriesUnder(RESULT_CACHE', JOBS[j].clientId)
             IN  /\ Cardinality(under) = 1
                 /\ \A i \in under :
                       /\ RESULT_CACHE'[i].buffer = final
                       /\ RESULT_CACHE'[i].size = final.n
                       /\ RESULT_CACHE'[i].age = 0
                 /\ Len(RESULT_CACHE') <= Len(RESULT_CACHE)]_vars

\* Two jobs of the same client id are done, the later result has replaced
\* an older one of another size, and one entry is resident.
C24_Witness ==
    /\ Len(RESULT_CACHE) = 1
    /\ RESULT_CACHE[1].age = 0
    /\ \E j, j2 \in DOMAIN JOBS :
          /\ JOBS[j].phase = "done" /\ JOBS[j2].phase = "done"
          /\ JOBS[j].resultId = RESULT_CACHE[1].key
          /\ JOBS[j2].resultId = RESULT_CACHE[1].key
          /\ JOBS[j].age > JOBS[j2].age
          /\ JOBS[j].compressedSize # RESULT_CACHE[1].size
          /\ JOBS[j2].compressedSize = RESULT_CACHE[1].size

----------------------------------------------------------------------------
(* Claims on the dedup index and the session sweep *)

\* The index entry under key names a result that is not in the cache.
Stale(key) ==
    /\ key \in DOMAIN COMPRESSED_HASH_INDEX
    /\ ~CacheHas(RESULT_CACHE, COMPRESSED_HASH_INDEX[key])

C26_IdleSessionsSwept ==
    [][/\ cleanupUploadSessions =>
            /\ DOMAIN UPLOAD_SESSIONS' =
                  {u \in DOMAIN UPLOAD_SESSIONS : UPLOAD_SESSIONS[u].idle <= CHUNK_SESSION_TTL}
            /\ \A u \in DOMAIN UPLOAD_SESSIONS' : UPLOAD_SESSIONS'[u] = UPLOAD_SESSIONS[u]
       /\ \A u \in 1..uuids :
            u \notin DOMAIN UPLOAD_SESSIONS =>
               /\ u \notin DOMAIN UPLOAD_SESSIONS'
               /\ \A idx \in SweepIndices, data \in SweepData :
                     PutChunk(u, idx, TRUE, data) =>
                        resp'.error = "upload_not_found" /\ UNCHANGED UPLOAD_SESSIONS
               /\ Complete(u, 0, "") =>
                     resp'.error = "upload_not_found" /\ UNCHANGED <<UPLOAD_SESSIONS, CALLS>>]_vars

\* A chunk was refused for a session the sweep destroyed, while a session
\* that received a chunk since is still there.
C26_Witness ==
    /\ resp.op = "chunk" /\ resp.error = "upload_not_found"
    /\ uuids = 2
    /\ \E u \in DOMAIN UPLOAD_SESSIONS :
          /\ DOMAIN UPLOAD_SESSIONS = {u}
          /\ UPLOAD_SESSIONS[u].receivedBytes > 0
          /\ UPLOAD_SESSIONS[u].idle <= CHUNK_SESSION_TTL

\* C27: once the client has aborted an upload, the server accepts no
\* further chunk for its session (a chunk request is answered with an error
\* and stores nothing), and the session can be removed at once: a sweep
\* leaves no aborted session behind, however recent its last chunk.
C27_AbortedSessionClosed ==
    [][/\ \A u \in DOMAIN UPLOAD_SESSIONS, idx \in SweepIndices, data \in SweepData :
            (UPLOAD_SESSIONS[u].canceled /\ PutChunk(u, idx, TRUE, data))
            => /\ resp'.error # ""
               /\ u \in DOMAIN UPLOAD_SESSIONS' =>
                     UPLOAD_SESSIONS'[u].chunks = UPLOAD_SESSIONS[u].chunks
       /\ cleanupUploadSessions =>
            \A u \in DOMAIN UPLOAD_SESSIONS :
                UPLOAD_SESSIONS[u].canceled => u \notin DOMAIN UPLOAD_SESSIONS']_vars

----------------------------------------------------------------------------
(* Claims on the removal of jobs *)

\* C28: every job that has reached done or error leaves the job store in
\* the end, removed by the server on its own once the grace period is over,
\* also when no client polls it again or clients poll it through the batch
\* query only.
C28_TerminalJobsSwept ==
    \A j \in 1..MaxJobs :
        (j \in DOMAIN JOBS /\ Terminal(JOBS[j])) ~> (j \notin DOMAIN JOBS)

\* C30: a job is removed from the job store only in a terminal phase, and
\* only when the grace period has passed since it entered that phase.
C30_RemovedAfterGrace ==
    [][\A j \in DOMAIN JOBS :
          j \notin DOMAIN JOBS' =>
             /\ Terminal(JOBS[j])
             /\ JOBS[j].rest > JOB_GRACE]_vars

----------------------------------------------------------------------------
(* Claims on the limiter's bound *)

\* The tasks of limiter r that a step starts.
StartedNow(r) ==
    {k \in TasksOf(CALLS', r) :
        /\ CALLS'[k].pc = "running"
        /\ k \in DOMAIN CALLS => CALLS[k].pc = "queued"}

\* C29: for a limiter of N slots the number of started and unsettled
\* tasks is between 0 and N in every state, under every interleaving of
\* limit() calls and settlements, and active counts them; a step starts a
\* task only when, the task aside, fewer than N are running.
C29_AtMostN ==
    /\ [](\A r \in DOMAIN LIMITERS :
            /\ Cardinality(Running(CALLS, r)) \in 0..LIMIT
            /\ LIMITERS[r].active = Cardinality(Running(CALLS, r)))
    /\ [][\A r \in DOMAIN LIMITERS' :
            StartedNow(r) # {} =>
               Cardinality(Running(CALLS', r) \ StartedNow(r)) < LIMIT]_vars

\* Every slot is taken and a task waits.
C29_Witness ==
    /\ 1 \in DOMAIN LIMITERS
    /\ Cardinality(Running(CALLS, 1)) = LIMIT
    /\ LIMITERS[1].queue # <<>>
    /\ \E k \in TasksOf(CALLS, 1) : CALLS[k].pc = "settled"

----------------------------------------------------------------------------
(* Claims on the hand-off of an upload *)

\* The jobs and compressBuffer frames a step creates.
HandedOff ==
    {<<"job", j>> : j \in DOMAIN JOBS' \ DOMAIN JOBS}
        \cup {<<"call", k>> : k \in DOMAIN CALLS' \ DOMAIN CALLS}

\* C31: complete hands the bytes of a session to the job engine at most
\* once.  A step that creates a job or starts a compression removes exactly
\* one session, a complete one, and creates exactly one of the two; a
\* removed session's id never names a session again; complete for an id
\* that names no session answers upload_not_found and putChunk for it is
\* rejected, both without any effect.
C31_HandOffOnce ==
    /\ [][HandedOff # {} =>
             /\ Cardinality(HandedOff) = 1
             /\ \E u \in DOMAIN UPLOAD_SESSIONS :
                   /\ SessionComplete(UPLOAD_SESSIONS[u])
                   /\ DOMAIN UPLOAD_SESSIONS' = DOMAIN UPLOAD_SESSIONS \ {u}
                   /\ \A v \in DOMAIN UPLOAD_SESSIONS' :
                         UPLOAD_SESSIONS'[v] = UPLOAD_SESSIONS[v]]_vars
    /\ [][\A u \in 1..uuids :
             u \notin DOMAIN UPLOAD_SESSIONS => u \notin DOMAIN UPLOAD_SESSIONS']_vars
    /\ [][\A u \in 1..MaxUuids, progress \in {"", "1"} :
             (u \notin DOMAIN UPLOAD_SESSIONS /\ Complete(u, 0, progress)) =>
                /\ resp'.error = "upload_not_found"
                /\ UNCHANGED <<UPLOAD_SESSIONS, JOBS, CALLS, uuids>>]_vars
    /\ [][\A u \in 1..MaxUuids, idx \in HandoffIndices, data \in HandoffData :
             (u \notin DOMAIN UPLOAD_SESSIONS /\ PutChunk(u, idx, TRUE, data)) =>
                /\ resp'.error = "upload_not_found"
                /\ UNCHANGED <<UPLOAD_SESSIONS, JOBS, CALLS, uuids>>]_vars

\* A second complete for a session that was handed off has just failed.
C31_Witness ==
    /\ resp.op = "complete"
    /\ resp.error = "upload_not_found"
    /\ UPLOAD_SESSIONS = <<>>
    /\ JOBS # <<>> \/ CALLS # <<>>

----------------------------------------------------------------------------
(* Claims on the validation of a chunk request *)

\* The index value is a decimal numeral of an integer in [0, count).
DenotesIndex(str, count) == IsDigits(str) /\ DigitsValue(str) < count

\* C32: a chunk request whose index is not an integer in [0, declared
\* chunk count) of its session, or whose upload id names no session, is
\* answered with bad_index or upload_not_found and leaves every session as
\* it was: chunks, receivedBytes and the time of the last update.
C32_BadChunkRejected ==
    [][\A query \in ChunkQueries, data \in SweepData :
          (/\ "index" \in DOMAIN query
           /\ \/ query.uploadId \notin DOMAIN UPLOAD_SESSIONS
              \/ ~DenotesIndex(query.index,
                               UPLOAD_SESSIONS[query.uploadId].totalChunks)
           /\ ChunkRequest(query, TRUE, data))
          => /\ resp'.error \in {"bad_index", "upload_not_found"}
             /\ UNCHANGED UPLOAD_SESSIONS]_vars

----------------------------------------------------------------------------
(* Claims on resumed uploads *)

\* The session the request just answered was about: a chunk request that
\* was accepted or recognised as a re-delivery, or an init that resumed it.
\* resp is the answer of the latest request and no time has passed since.
ActiveNow ==
    IF resp.op = "chunk" /\ resp.error = "" THEN {resp.uploadId}
    ELSE IF resp.op = "init" /\ resp.error = "" /\ resp.resume THEN {resp.uploadId}
    ELSE {}

\* C33: the sweep does not destroy a session that has seen chunk activity
\* within the TTL window, a re-delivery of a received index and a resuming
\* init included: a sweep that runs right after such a request, before any
\* time has passed, keeps the session.
C33_ActiveSessionKept ==
    [][cleanupUploadSessions =>
          \A u \in ActiveNow \cap DOMAIN UPLOAD_SESSIONS :
              u \in DOMAIN UPLOAD_SESSIONS']_vars

\* C35: when init answers with a resume descriptor, the declared chunk
\* count of the session it names equals the chunk count of the init
\* request, so that the received indices denote the same byte ranges for
\* the resuming client.
C35_ResumeSameChunking ==
    [][\A totalChunks \in ResumeChunkCounts :
          (/\ UploadInit("a.png", Len(ResumeFile), "image/png", totalChunks, 70,
                         hashFileSHA256(ResumeFile), 101)
           /\ resp'.error = ""
           /\ resp'.resume)
          => UPLOAD_SESSIONS[resp'.uploadId].totalChunks = totalChunks]_vars

----------------------------------------------------------------------------
(* Claims on recompression *)

\* What the codec made of a finished job's input (the outputs of
\* RecompressSizes are smaller than the inputs, so the input is never kept).
OutputOf(job) == Encoded(job.buffer, job.quality, job.compressedSize)

\* C34: when two jobs with the same correlation id are both done, the
\* cache entry under that id holds the output of the job that was submitted
\* last, whatever order they finished in.  Job ids are issued in the order
\* of submission; the step looked at is the one that makes the second of
\* the two done.
C34_LastSubmittedWins ==
    [][\A j1, j2 \in DOMAIN JOBS' :
          (/\ j1 < j2
           /\ j1 \in DOMAIN JOBS /\ j2 \in DOMAIN JOBS
           /\ JOBS'[j1].clientId = JOBS'[j2].clientId
           /\ JOBS'[j1].phase = "done" /\ JOBS'[j2].phase = "done"
           /\ JOBS[j1].phase # "done" \/ JOBS[j2].phase # "done")
          => /\ CacheHas(RESULT_CACHE', JOBS'[j2].clientId)
             /\ CacheGet(RESULT_CACHE', JOBS'[j2].clientId).buffer = OutputOf(JOBS'[j2])]_vars

----------------------------------------------------------------------------
(* Claims on the completion of an upload *)

Bytes(n) == [i \in 1..n |-> 1]

\* Some sequence of chunk requests brings the session to a state in which
\* complete succeeds.
RECURSIVE Completable(_)
Completable(session) ==
    \/ /\ SessionComplete(session)
       /\ \A i \in 0..(session.totalChunks - 1) : i \in DOMAIN session.chunks
    \/ \E c \in Accepted(session) : Completable(AfterChunk(session, c[1], Bytes(c[2])))

\* C36: from every reachable state of an open session there is a sequence
\* of putChunk calls after which complete succeeds, also when every
\* declared index was received and receivedBytes is smaller than the
\* declared size.
C36_AlwaysCompletable ==
    \A u \in DOMAIN UPLOAD_SESSIONS : Completable(UPLOAD_SESSIONS[u])

----------------------------------------------------------------------------
(* Claims on replacing a cache entry *)

\* C37: inserting a result under a key that is already resident evicts no
\* other unexpired entry when the cache after the replacement satisfies
\* both budgets.
C37_ReplacementEvictsNothing ==
    [][\A k \in DOMAIN CALLS, n \in CacheSizes :
          (/\ CallEncoded(k, "ok", n)
           /\ CacheHas(RESULT_CACHE, CALLS[k].id)
           /\ Len(RESULT_CACHE) <= MAX_CACHE_ITEMS
           /\ currentCacheBytes - CacheGet(RESULT_CACHE, CALLS[k].id).size
                 + FinalBuffer(CALLS[k].buffer, CALLS[k].quality, CALLS[k].scaled, n).n
                 <= MAX_CACHE_BYTES)
          => \A i \in DOMAIN RESULT_CACHE :
                (RESULT_CACHE[i].key # CALLS[k].id /\ ~Expired(RESULT_CACHE[i]))
                => CacheHas(RESULT_CACHE', RESULT_CACHE[i].key)]_vars

----------------------------------------------------------------------------
(* Claims on the limiter's use of its slots *)

\* C38: a limiter is work-conserving.  In every state between two events,
\* if its queue holds a waiting task then exactly N tasks are running: no
\* task waits while a slot is free.
C38_WorkConserving ==
    \A r \in DOMAIN LIMITERS :
        LIMITERS[r].queue # <<>> =>
            /\ Cardinality(Running(CALLS, r)) = LIMIT
            /\ \A i \in DOMAIN LIMITERS[r].queue :
                  CALLS[<<r, LIMITERS[r].queue[i]>>].pc = "queued"

\* A task that had to wait runs in the slot a settled task gave up, and
\* another task still waits.
C38_Witness ==
    /\ 1 \in DOMAIN LIMITERS
    /\ LIMITERS[1].queue # <<>>
    /\ \E k \in Running(CALLS, 1) : CALLS[k].waited

----------------------------------------------------------------------------
(* Claims on the client's polling *)

\* The batch poll has just reported the job of item i as missing.
ReportedMissing(i) ==
    /\ resp.op = "jobs"
    /\ \E k \in DOMAIN resp.items :
          /\ resp.items[k].jobId = items[i].jobId
          /\ resp.items[k].missing

\* C39: a queue item that waits for a job never polls forever.  If the
\* batch poll reports its job as missing, the item eventually leaves the
\* compress phase and the polling for that job id stops.
C39_MissingJobEndsPolling ==
    \A i \in {f.clientId : f \in ClientFiles} :
        (i \in DOMAIN items /\ i \in activeJobs /\ ReportedMissing(i))
            ~> (i \notin activeJobs)
====
